---- MODULE Spec2Model ----
(***************************************************************************)
(* A model of shvtree: the NamedSet collection, the type algebra with its  *)
(* Bitfield packing, and the loader of type and node declarations.         *)
(*                                                                         *)
(* Python objects live in a heap: a sequence of records, an object's id is *)
(* its index.  Identity (`is`) is equality of ids, `==` is PyEq, which     *)
(* follows the __eq__ methods of the classes.                              *)
(***************************************************************************)
EXTENDS Integers, Sequences, FiniteSets, TLC

VARIABLES
    namedset,   \* NamedSet.__namedset of the collection under test (ids)
    nslast,     \* the last NamedSet operation: its arguments and outcome
    bitfield,   \* the SHVTypeBitfield under test: [items, strict]
    bflast,     \* the last Bitfield operation: its arguments and outcome
    document,   \* the raw document handed to load_raw
    objects,    \* the objects alive: the builtins and what the loads created
    loaded,     \* the outcomes of the load_raw calls, in order
    curnode,    \* the SHVNode or SHVTree under test
    ndlast,     \* the last operation on the node: its arguments and outcome
    curtype,    \* the type under test
    tplast      \* the last operation on the type: its arguments and outcome

vars == <<namedset, nslast, bitfield, bflast, document, objects, loaded, curnode,
          ndlast, curtype, tplast>>

(***************************************************************************)
(* Bounds of the model.                                                    *)
(***************************************************************************)
MaxInit == 2       \* values handed to the NamedSet constructor
MaxItems == 2      \* items handed to the SHVTypeBitfield constructor
MaxBit == 3        \* highest bit index given to Bitfield.set / get
MaxValueBits == 4  \* width of the integers given to interpret / validate
MaxTypes == 2      \* declarations in the types mapping of a document
MaxLoads == 2      \* calls of load_raw on one document
MaxCalls == 3      \* calls on the methods of the node under test
MaxDepth == 2      \* levels of nodes below the root of a tree
MaxChildren == 2   \* children handed to the NamedSet of a node
MaxPath == 3       \* characters of a path given to get_node
MaxIntBits == 137  \* bit length of the largest bound of an integer type
MaxStringLength == 200 \* largest length bound of a String or Blob type
MaxFields == 2     \* fields of a Tuple type

(***************************************************************************)
(* Python values.                                                          *)
(***************************************************************************)
None == <<>>
Some(x) == <<x>>
PyBool(b) == [bool |-> b]
PyInt(i) == [int |-> i]
NoExc == "None"

RECURSIVE Pow2(_)
Pow2(n) == IF n <= 0 THEN 1 ELSE 2 * Pow2(n - 1)

\* int.bit_length() of a non-negative integer
RECURSIVE bit_length(_)
bit_length(n) == IF n <= 0 THEN 0 ELSE 1 + bit_length(n \div 2)

\* a & b, a | b of non-negative integers
RECURSIVE BitAnd(_, _)
BitAnd(a, b) ==
    IF a = 0 \/ b = 0 THEN 0
    ELSE (IF a % 2 = 1 /\ b % 2 = 1 THEN 1 ELSE 0) + 2 * BitAnd(a \div 2, b \div 2)

RECURSIVE BitOr(_, _)
BitOr(a, b) ==
    IF a = 0 THEN b
    ELSE IF b = 0 THEN a
    ELSE (IF a % 2 = 1 \/ b % 2 = 1 THEN 1 ELSE 0) + 2 * BitOr(a \div 2, b \div 2)

\* value & ~mask
BitClear(value, mask) == value - BitAnd(value, mask)

SeqRemoveAt(s, i) == SubSeq(s, 1, i - 1) \o SubSeq(s, i + 1, Len(s))

RECURSIVE SeqsUpTo(_, _)
SeqsUpTo(S, n) ==
    IF n = 0 THEN {<<>>}
    ELSE LET shorter == SeqsUpTo(S, n - 1)
         IN shorter \cup {Append(s, x) : s \in shorter, x \in S}

(***************************************************************************)
(* The builtin types (types_builtins.py).  The ids follow the order of     *)
(* shvBuiltins.  Int64, UInt32 and UInt64 carry bounds beyond the integers *)
(* of the checker: they are present by name only.                          *)
(***************************************************************************)
SHVTypeInt(name, minimum, maximum, multiple_of, unsigned) ==
    [kind |-> "Int", name |-> name, minimum |-> minimum, maximum |-> maximum,
     multiple_of |-> multiple_of,
     unsigned |-> IF unsigned # None THEN unsigned[1]
                  ELSE minimum # None /\ minimum[1] >= 0]

SHVTypeString(name, min_length, max_length, pattern) ==
    [kind |-> "String", name |-> name, min_length |-> min_length,
     max_length |-> max_length, pattern |-> pattern]

SHVTypeBlob(name, min_length, max_length) ==
    [kind |-> "Blob", name |-> name, min_length |-> min_length,
     max_length |-> max_length]

SHVTypeAlias(name, shvtp) == [kind |-> "Alias", name |-> name, type |-> shvtp]

SHVTypeOneOf(name, types) == [kind |-> "OneOf", name |-> name, types |-> types]

\* an Enum is an ordered dict: a sequence of <<key, value>> pairs
SHVTypeEnum(name, pairs) == [kind |-> "Enum", name |-> name, pairs |-> pairs]

shvAny == 1
shvNull == 2
shvBool == 3
shvInt == 4
shvUInt == 9
shvUInt8 == 10
shvString == 16
shvBlob == 17
shvOptionalString == 22

shvBuiltins ==
    << [kind |-> "Any", name |-> "Any"],
       [kind |-> "Null", name |-> "Null"],
       [kind |-> "Bool", name |-> "Bool"],
       SHVTypeInt("Int", None, None, None, None),
       SHVTypeInt("Int8", Some(-128), Some(127), None, None),
       SHVTypeInt("Int16", Some(-32768), Some(32767), None, None),
       SHVTypeInt("Int32", Some(-2147483647 - 1), Some(2147483647), None, None),
       [kind |-> "Int", name |-> "Int64"],
       SHVTypeInt("UInt", Some(0), None, None, None),
       SHVTypeInt("UInt8", Some(0), Some(255), None, None),
       SHVTypeInt("UInt16", Some(0), Some(65535), None, None),
       [kind |-> "Int", name |-> "UInt32"],
       [kind |-> "Int", name |-> "UInt64"],
       [kind |-> "Double", name |-> "Double", minimum |-> None, maximum |-> None,
        exclusive_minimum |-> None, exclusive_maximum |-> None,
        multiple_of |-> None],
       [kind |-> "Decimal", name |-> "Decimal", minimum |-> None, maximum |-> None],
       SHVTypeString("String", None, None, None),
       SHVTypeBlob("Blob", None, None),
       [kind |-> "DateTime", name |-> "DateTime"],
       [kind |-> "List", name |-> "List", allowed |-> shvAny, minlen |-> 0,
        maxlen |-> None],
       [kind |-> "AnyMap", name |-> "Map"],
       [kind |-> "AnyIMap", name |-> "IMap"],
       SHVTypeOneOf("OptionalString", <<shvNull, shvString>>),
       SHVTypeAlias("_getParam", shvOptionalString) >>

\* name in shvBuiltins
IsBuiltinName(name) == \E i \in 1..Len(shvBuiltins) : shvBuiltins[i].name = name

\* shvBuiltins[name]
BuiltinByName(name) ==
    CHOOSE i \in 1..Len(shvBuiltins) : shvBuiltins[i].name = name

(***************************************************************************)
(* Equality of types: a == b calls a.__eq__(b); when that answers          *)
(* NotImplemented the reflected b.__eq__(a) is tried, and identity decides *)
(* at the end.  EqMethod yields "True", "False" or "NotImplemented".       *)
(***************************************************************************)
Truth(b) == IF b THEN "True" ELSE "False"

\* classes that keep object.__eq__
KeepsObjectEq(kind) == kind \in {"Any", "Null", "Bool", "DateTime", "AnyMap", "AnyIMap"}

\* the dict view compared by dict.__eq__ (Enum, Map) and Mapping.__eq__ (IMap)
IsDictKind(kind) == kind \in {"Enum", "Map"}
IsMappingKind(kind) == kind \in {"Enum", "Map", "IMap"}

RECURSIVE PyEq(_, _, _)
RECURSIVE EqMethod(_, _, _)
RECURSIVE ListEq(_, _, _)
RECURSIVE DictEq(_, _, _)
RECURSIVE OptEq(_, _, _)

\* list.__eq__: same length and every pair identical or equal
ListEq(h, xs, ys) ==
    /\ Len(xs) = Len(ys)
    /\ \A i \in 1..Len(xs) : xs[i] = ys[i] \/ PyEq(h, xs[i], ys[i])

\* the values of an Enum are ints, the values of a Map or IMap are types
DictValueEq(h, ka, va, kb, vb) ==
    IF ka = "Enum" /\ kb = "Enum" THEN va = vb
    ELSE IF ka = "Enum" \/ kb = "Enum" THEN FALSE
    ELSE va = vb \/ PyEq(h, va, vb)

\* the keys of an Enum or a Map are strings, the keys of an IMap are ints
DictKeyEq(ka, a, kb, b) ==
    IF (ka = "IMap") = (kb = "IMap") THEN a = b ELSE FALSE

\* dict.__eq__ over the <<key, value>> pairs of two mappings
DictEq(h, a, b) ==
    LET pa == h[a].pairs
        pb == h[b].pairs
        ka == h[a].kind
        kb == h[b].kind
    IN /\ Len(pa) = Len(pb)
       /\ \A i \in 1..Len(pa) :
            \E j \in 1..Len(pb) :
                /\ DictKeyEq(ka, pa[i][1], kb, pb[j][1])
                /\ DictValueEq(h, ka, pa[i][2], kb, pb[j][2])

\* other.enum == self.enum, where enum is None or an Enum
OptEq(h, ea, eb) ==
    IF ea = None \/ eb = None THEN ea = eb
    ELSE ea[1] = eb[1] \/ PyEq(h, ea[1], eb[1])

EqMethod(h, a, b) ==
    LET x == h[a]
        y == h[b]
    IN CASE KeepsObjectEq(x.kind) ->
              IF a = b THEN "True" ELSE "NotImplemented"
         [] x.kind = "Int" ->
              Truth(/\ y.kind = "Int"
                    /\ y.minimum = x.minimum
                    /\ y.maximum = x.maximum
                    /\ y.multiple_of = x.multiple_of)
         [] x.kind = "Double" ->
              Truth(/\ y.kind = "Double"
                    /\ y.minimum = x.minimum
                    /\ y.maximum = x.maximum
                    /\ y.exclusive_minimum = x.exclusive_minimum
                    /\ y.exclusive_maximum = x.exclusive_maximum
                    /\ y.multiple_of = x.multiple_of)
         [] x.kind = "Decimal" ->
              Truth(/\ y.kind = "Decimal"
                    /\ y.minimum = x.minimum
                    /\ y.maximum = x.maximum)
         [] x.kind = "String" ->
              Truth(/\ y.kind = "String"
                    /\ y.min_length = x.min_length
                    /\ y.max_length = x.max_length
                    /\ y.pattern = x.pattern)
         [] x.kind = "Blob" ->
              Truth(/\ y.kind = "String"
                    /\ y.min_length = x.min_length
                    /\ y.max_length = x.max_length)
         [] x.kind = "Alias" ->
              Truth(\/ PyEq(h, x.type, b)
                    \/ (y.kind = "Alias" /\ PyEq(h, x.type, y.type)))
         [] x.kind = "OneOf" ->
              Truth(y.kind = "OneOf" /\ ListEq(h, x.types, y.types))
         [] x.kind = "List" ->
              Truth(/\ y.kind = "List"
                    /\ PyEq(h, y.allowed, x.allowed)
                    /\ y.minlen = x.minlen
                    /\ y.maxlen = x.maxlen)
         [] IsDictKind(x.kind) ->
              IF IsDictKind(y.kind) THEN Truth(DictEq(h, a, b))
              ELSE "NotImplemented"
         [] x.kind = "IMap" ->
              IF IsMappingKind(y.kind) THEN Truth(DictEq(h, a, b))
              ELSE "NotImplemented"
         [] x.kind = "Constant" ->
              Truth(y.kind = "Constant" /\ y.value = x.value)
         [] x.kind \in {"Bitfield", "Tuple"} ->
              IF ~(y.kind \in {"Bitfield", "Tuple", "IMap"}) THEN "False"
              ELSE IF ~OptEq(h, y.enum, x.enum) THEN "False"
              ELSE IF y.kind = "IMap" THEN "NotImplemented"
              ELSE Truth(ListEq(h, x.items, y.items))
         [] OTHER -> "NotImplemented"

PyEq(h, a, b) ==
    LET r == EqMethod(h, a, b)
    IN IF r # "NotImplemented" THEN r = "True"
       ELSE LET rr == EqMethod(h, b, a)
            IN IF rr # "NotImplemented" THEN rr = "True" ELSE a = b

(***************************************************************************)
(* NamedSet (namedset.py): a list of objects, looked up by name.           *)
(***************************************************************************)
\* the names in iteration order
NsNames(h, ns) == [i \in 1..Len(ns) |-> h[ns[i]].name]

\* str in NamedSet
NsContainsName(h, ns, name) == \E i \in 1..Len(ns) : h[ns[i]].name = name

\* Named in NamedSet: item in list compares each element with the item
NsContainsObj(h, ns, obj) ==
    \E i \in 1..Len(ns) : ns[i] = obj \/ PyEq(h, ns[i], obj)

\* the position of the first element of that name, 0 when there is none
NsIndexOfName(h, ns, key) ==
    IF NsContainsName(h, ns, key)
    THEN CHOOSE i \in 1..Len(ns) :
            /\ h[ns[i]].name = key
            /\ \A j \in 1..(i - 1) : h[ns[j]].name # key
    ELSE 0

\* NamedSet.__getitem__
NsGetItem(h, ns, key) ==
    LET i == NsIndexOfName(h, ns, key)
    IN IF i = 0 THEN [exc |-> "KeyError", obj |-> 0]
       ELSE [exc |-> NoExc, obj |-> ns[i]]

\* the position list.remove(value) removes: the first element that is the
\* value or compares equal to it; 0 when there is none
ListRemoveIndex(h, lst, value) ==
    IF \E i \in 1..Len(lst) : lst[i] = value \/ PyEq(h, lst[i], value)
    THEN CHOOSE i \in 1..Len(lst) :
            /\ (lst[i] = value \/ PyEq(h, lst[i], value))
            /\ \A j \in 1..(i - 1) : ~(lst[j] = value \/ PyEq(h, lst[j], value))
    ELSE 0

\* NamedSet.discard
NsDiscard(h, ns, value) ==
    LET i == ListRemoveIndex(h, ns, value)
    IN IF i = 0 THEN [exc |-> "ValueError", ns |-> ns]
       ELSE [exc |-> NoExc, ns |-> SeqRemoveAt(ns, i)]

\* NamedSet.__delitem__
NsDelItem(h, ns, key) ==
    LET got == NsGetItem(h, ns, key)
    IN IF got.exc # NoExc THEN [exc |-> got.exc, ns |-> ns]
       ELSE NsDiscard(h, ns, got.obj)

\* NamedSet.add
NsAdd(h, ns, obj) ==
    IF NsContainsName(h, ns, h[obj].name)
    THEN [exc |-> "ValueError", ns |-> ns]
    ELSE [exc |-> NoExc, ns |-> Append(ns, obj)]

\* NamedSet.update: adds nset[name] for every name of nset, up to the first
\* add that raises
RECURSIVE NsUpdateFrom(_, _, _, _)
NsUpdateFrom(h, ns, nset, i) ==
    IF i > Len(nset) THEN [exc |-> NoExc, ns |-> ns]
    ELSE LET obj == NsGetItem(h, nset, h[nset[i]].name).obj
             r == NsAdd(h, ns, obj)
         IN IF r.exc # NoExc THEN r ELSE NsUpdateFrom(h, r.ns, nset, i + 1)

NsUpdate(h, ns, nset) == NsUpdateFrom(h, ns, nset, 1)

(***************************************************************************)
(* The NamedSet under test holds types: two Ints that compare equal under  *)
(* different names, a second object named "a", a Blob and an Alias.        *)
(***************************************************************************)
NsHeap ==
    shvBuiltins \o
    << SHVTypeInt("a", Some(0), Some(5), None, None),
       SHVTypeInt("b", Some(0), Some(5), None, None),
       SHVTypeInt("a", Some(1), Some(7), None, None),
       SHVTypeBlob("c", None, Some(4)),
       SHVTypeAlias("d", Len(shvBuiltins) + 1) >>

NsObjects == (Len(shvBuiltins) + 1)..Len(NsHeap)
NsKeys == {NsHeap[o].name : o \in NsObjects} \cup {"missing"}

IdleNs == [op |-> "init", arg |-> 0, key |-> "", other |-> <<>>,
           before |-> <<>>, exc |-> NoExc]

\* NamedSet(*values): the constructor takes the values as they are
NamedSetInit ==
    /\ namedset \in SeqsUpTo(NsObjects, MaxInit)
    /\ nslast = [IdleNs EXCEPT !.before = namedset]

NamedSetAdd ==
    \E obj \in NsObjects :
        LET r == NsAdd(NsHeap, namedset, obj)
        IN /\ namedset' = r.ns
           /\ nslast' = [IdleNs EXCEPT !.op = "add", !.arg = obj,
                                       !.before = namedset, !.exc = r.exc]

NamedSetDelItem ==
    \E key \in NsKeys :
        LET r == NsDelItem(NsHeap, namedset, key)
        IN /\ namedset' = r.ns
           /\ nslast' = [IdleNs EXCEPT !.op = "delitem", !.key = key,
                                       !.before = namedset, !.exc = r.exc]

NamedSetDiscard ==
    \E obj \in NsObjects :
        LET r == NsDiscard(NsHeap, namedset, obj)
        IN /\ namedset' = r.ns
           /\ nslast' = [IdleNs EXCEPT !.op = "discard", !.arg = obj,
                                       !.before = namedset, !.exc = r.exc]

NamedSetUpdate ==
    \E nset \in SeqsUpTo(NsObjects, MaxInit) :
        LET r == NsUpdate(NsHeap, namedset, nset)
        IN /\ namedset' = r.ns
           /\ nslast' = [IdleNs EXCEPT !.op = "update", !.other = nset,
                                       !.before = namedset, !.exc = r.exc]

(***************************************************************************)
(* Claims about NamedSet.                                                  *)
(***************************************************************************)
NsUniqueNames(h, ns) ==
    \A i, j \in 1..Len(ns) : i # j => h[ns[i]].name # h[ns[j]].name

\* C1: in every reachable state of a NamedSet no two elements share a name,
\* and add of an element whose name is already present raises.
C1_UniqueNames ==
    /\ NsUniqueNames(NsHeap, namedset)
    /\ (nslast.op = "add"
        /\ NsContainsName(NsHeap, nslast.before, NsHeap[nslast.arg].name))
       => nslast.exc = "ValueError"

\* C2: del set[name] on a set of distinct names that holds the name removes
\* exactly the element of that name; the others stay, in their order.
C2_DelRemovesNamed ==
    (/\ nslast.op = "delitem"
     /\ NsUniqueNames(NsHeap, nslast.before)
     /\ NsContainsName(NsHeap, nslast.before, nslast.key))
    => /\ nslast.exc = NoExc
       /\ ~NsContainsName(NsHeap, namedset, nslast.key)
       /\ namedset = SelectSeq(nslast.before,
                               LAMBDA o : NsHeap[o].name # nslast.key)


(***************************************************************************)
(* SHVTypeBitfield (types.py): a list of component types, shvNull as a     *)
(* one-bit hole, and the strict flag.                                      *)
(***************************************************************************)
SetMax(S) == CHOOSE m \in S : \A x \in S : x <= m

\* the values() of an Enum
EnumValues(e) == {e.pairs[i][2] : i \in 1..Len(e.pairs)}

\* SHVTypeEnum.integer
EnumInteger(e) ==
    SHVTypeInt(e.name \o "-integer", Some(0), Some(SetMax(EnumValues(e))),
               None, None)

\* SHVTypeInt.validate of an integer
IntValidate(t, value) ==
    /\ (t.minimum = None \/ t.minimum[1] <= value)
    /\ (t.maximum = None \/ t.maximum[1] >= value)
    /\ (t.multiple_of = None \/ value % t.multiple_of[1] = 0)

\* SHVTypeEnum.validate of an integer
EnumValidate(e, value) == value \in EnumValues(e)

\* SHVTypeBitfield.type_span: Some(bits) or None
\* the chain of Aliases that starts at tp ends at a type that is no Alias;
\* comparing an Alias of a chain that does not end, as tp in (shvNull,
\* shvBool) does, recurses until Python raises RecursionError
RECURSIVE AliasEnds(_, _, _)
AliasEnds(h, tp, seen) ==
    IF h[tp].kind # "Alias" THEN TRUE
    ELSE IF tp \in seen THEN FALSE
    ELSE AliasEnds(h, h[tp].type, seen \cup {tp})

type_span(h, tp) ==
    IF PyEq(h, shvNull, tp) \/ PyEq(h, shvBool, tp) THEN Some(1)
    ELSE LET t == IF h[tp].kind = "Enum" THEN EnumInteger(h[tp]) ELSE h[tp]
         IN IF t.kind = "Int" /\ t.unsigned /\ t.maximum # None
            THEN Some(bit_length(t.maximum[1]))
            ELSE None

\* self.type_span(item) or 0
SpanOr0(h, tp) ==
    LET siz == type_span(h, tp) IN IF siz = None THEN 0 ELSE siz[1]

\* SHVTypeBitfield.types: the non-hole items with start bit and span
RECURSIVE BfTypesFrom(_, _, _, _)
BfTypesFrom(h, items, k, i) ==
    IF k > Len(items) THEN <<>>
    ELSE IF items[k] = shvNull THEN BfTypesFrom(h, items, k + 1, i + 1)
    ELSE LET siz == type_span(h, items[k])[1]
         IN <<[tp |-> items[k], pos |-> i, siz |-> siz]>>
            \o BfTypesFrom(h, items, k + 1, i + siz)

BfTypes(h, items) == BfTypesFrom(h, items, 1, 0)

\* the tail of SHVTypeBitfield.get: the first type at or after the bit
BfGetAt(ts, reached, bit) ==
    IF reached = {} THEN [exc |-> "ValueError", tp |-> 0]
    ELSE LET k == CHOOSE m \in reached : \A n \in reached : m <= n
         IN IF ts[k].pos = bit THEN [exc |-> NoExc, tp |-> ts[k].tp]
            ELSE [exc |-> "ValueError", tp |-> 0]

BfGetIn(ts, bit) == BfGetAt(ts, {k \in 1..Len(ts) : ts[k].pos >= bit}, bit)

\* SHVTypeBitfield.get with an integer bit
BfGet(h, items, bit) == BfGetIn(BfTypes(h, items), bit)

\* the loop of SHVTypeBitfield.set over the old items; self was cleared
\* before it, so a raise leaves the items appended so far
RECURSIVE BfSetLoop(_, _, _, _, _, _, _, _)
BfSetLoop(h, old, k, offset, new, bit, value, valsiz) ==
    IF k > Len(old) THEN [exc |-> NoExc, items |-> new, offset |-> offset]
    ELSE LET item == old[k]
             next == offset + SpanOr0(h, item)
             raised == [exc |-> "ValueError", items |-> new, offset |-> offset]
         IN IF offset = bit
            THEN IF item # shvNull THEN raised
                 ELSE BfSetLoop(h, old, k + 1, next, Append(new, value),
                                bit, value, valsiz)
            ELSE IF bit < offset /\ offset < bit + valsiz
            THEN IF item # shvNull THEN raised
                 ELSE BfSetLoop(h, old, k + 1, next, new, bit, value, valsiz)
            ELSE BfSetLoop(h, old, k + 1, next, Append(new, item),
                           bit, value, valsiz)

\* the end of SHVTypeBitfield.set: holes up to the bit, then the type
BfSetEnd(r, bit, value) ==
    IF r.exc # NoExc THEN [exc |-> r.exc, items |-> r.items]
    ELSE IF r.offset <= bit
    THEN [exc |-> NoExc,
          items |-> r.items \o [n \in 1..(bit - r.offset) |-> shvNull]
                            \o <<value>>]
    ELSE [exc |-> NoExc, items |-> r.items]

BfSetSized(h, items, bit, value, valsiz) ==
    IF valsiz = None THEN [exc |-> "ValueError", items |-> items]
    ELSE BfSetEnd(BfSetLoop(h, items, 1, 0, <<>>, bit, value, valsiz[1]),
                  bit, value)

\* SHVTypeBitfield.set with an integer bit
BfSet(h, items, bit, value) ==
    BfSetSized(h, items, bit, value, type_span(h, value))

\* a plausible slip: the shift by the start bit is forgotten
ExtractBitsNoShift(value, pos, siz) == BitAnd(value, Pow2(siz) - 1)

\* (value >> pos) & (2**siz - 1)
ExtractBits(value, pos, siz) == BitAnd(value \div Pow2(pos), Pow2(siz) - 1)

\* the loop of SHVTypeBitfield.interpret over self.types()
RECURSIVE BfInterpretLoop(_, _, _, _, _)
BfInterpretLoop(h, ts, k, value, res) ==
    IF k > Len(ts) THEN [exc |-> NoExc, res |-> res, value |-> value]
    ELSE LET t == ts[k]
             mask == Pow2(t.siz) - 1
             v == ExtractBits(value, t.pos, t.siz)
             rest == BitClear(value, mask * Pow2(t.pos))
             raised == [exc |-> "ValueError", res |-> res, value |-> rest]
         IN IF t.tp = shvBool
            THEN BfInterpretLoop(h, ts, k + 1, rest, Append(res, PyBool(v # 0)))
            ELSE IF h[t.tp].kind = "Enum"
            THEN IF ~EnumValidate(h[t.tp], v) THEN raised
                 ELSE BfInterpretLoop(h, ts, k + 1, rest, Append(res, PyInt(v)))
            ELSE IF h[t.tp].kind = "Int"
            THEN IF ~IntValidate(h[t.tp], v) THEN raised
                 ELSE BfInterpretLoop(h, ts, k + 1, rest, Append(res, PyInt(v)))
            ELSE raised

\* a plausible slip: the unused bits are never looked at
StrictIgnored(strict, value) == FALSE

\* the last check of interpret: unused bits under strict
StrictRejects(strict, value) == strict /\ value # 0

\* the end of SHVTypeBitfield.interpret
BfInterpretEnd(r, strict) ==
    IF r.exc # NoExc THEN [exc |-> r.exc, res |-> <<>>]
    ELSE IF StrictRejects(strict, r.value)
    THEN [exc |-> "ValueError", res |-> <<>>]
    ELSE [exc |-> NoExc, res |-> r.res]

\* SHVTypeBitfield.interpret
BfInterpret(h, items, strict, value) ==
    BfInterpretEnd(BfInterpretLoop(h, BfTypes(h, items), 1, value, <<>>), strict)

\* SHVTypeBitfield.validate of an integer
BfValidate(h, items, strict, value) ==
    BfInterpret(h, items, strict, value).exc = NoExc

(***************************************************************************)
(* The Bitfield under test is built from Null, Bool, a bounded unsigned    *)
(* Int and two Enums (one of them with the single value 0).                *)
(***************************************************************************)
BfHeap ==
    shvBuiltins \o
    << SHVTypeInt("foo", Some(1), Some(6), None, None),
       SHVTypeEnum("e", << <<"a", 0>>, <<"b", 2>> >>),
       SHVTypeEnum("z", << <<"only", 0>> >>) >>

BfComponents == {shvNull, shvBool} \cup ((Len(shvBuiltins) + 1)..Len(BfHeap))
BfValues == 0..(Pow2(MaxValueBits) - 1)

IdleBitfield == [op |-> "init", bit |-> 0, tp |-> 0, value |-> 0,
                 before |-> <<>>, exc |-> NoExc, res |-> <<>>, valid |-> FALSE]

\* SHVTypeBitfield(name, *items, strict=...)
BitfieldInit ==
    /\ bitfield \in [items : SeqsUpTo(BfComponents, MaxItems), strict : BOOLEAN]
    /\ bflast = IdleBitfield

\* A query (get, interpret, validate) leaves the bitfield as it is: a run
\* ends with it, and every pair of a reachable bitfield and a query is reached.
BfMutable == bflast.op \in {"init", "set"}

\* set is applied while the bitfield has at most MaxItems items
BitfieldSet ==
    \E bit \in 0..MaxBit, value \in BfComponents :
        LET r == BfSet(BfHeap, bitfield.items, bit, value)
        IN /\ BfMutable
           /\ Len(bitfield.items) <= MaxItems
           /\ bitfield' = [bitfield EXCEPT !.items = r.items]
           /\ bflast' = [IdleBitfield EXCEPT !.op = "set", !.bit = bit,
                            !.tp = value, !.before = bitfield.items,
                            !.exc = r.exc]

BitfieldGet ==
    \E bit \in 0..MaxBit :
        LET r == BfGet(BfHeap, bitfield.items, bit)
        IN /\ BfMutable
           /\ bflast' = [IdleBitfield EXCEPT !.op = "get", !.bit = bit,
                            !.tp = r.tp, !.before = bitfield.items,
                            !.exc = r.exc]
           /\ UNCHANGED bitfield

BitfieldInterpret ==
    \E value \in BfValues :
        LET r == BfInterpret(BfHeap, bitfield.items, bitfield.strict, value)
        IN /\ BfMutable
           /\ bflast' = [IdleBitfield EXCEPT !.op = "interpret",
                            !.value = value, !.before = bitfield.items,
                            !.exc = r.exc, !.res = r.res]
           /\ UNCHANGED bitfield

BitfieldValidate ==
    \E value \in BfValues :
        /\ BfMutable
        /\ bflast' = [IdleBitfield EXCEPT !.op = "validate", !.value = value,
                         !.before = bitfield.items,
                         !.valid = BfValidate(BfHeap, bitfield.items,
                                              bitfield.strict, value)]
        /\ UNCHANGED bitfield

(***************************************************************************)
(* Claims about SHVTypeBitfield.                                           *)
(***************************************************************************)
\* the values that validate against a component on their own
ValidValues(h, tp) ==
    IF tp = shvBool THEN {PyBool(TRUE), PyBool(FALSE)}
    ELSE IF h[tp].kind = "Enum" THEN {PyInt(v) : v \in EnumValues(h[tp])}
    ELSE {PyInt(v) : v \in {w \in BfValues : IntValidate(h[tp], w)}}

RECURSIVE ValidLists(_, _, _)
ValidLists(h, ts, k) ==
    IF k > Len(ts) THEN {<<>>}
    ELSE {<<v>> \o rest : v \in ValidValues(h, ts[k].tp),
                          rest \in ValidLists(h, ts, k + 1)}

PyToInt(pv) == IF "bool" \in DOMAIN pv THEN (IF pv.bool THEN 1 ELSE 0) ELSE pv.int

\* every value shifted to the start bit of its component, OR-ed together
RECURSIVE PackFrom(_, _, _)
PackFrom(ts, vals, k) ==
    IF k > Len(ts) THEN 0
    ELSE BitOr(PyToInt(vals[k]) * Pow2(ts[k].pos), PackFrom(ts, vals, k + 1))

\* C3: interpret of the integer packed from a list of values, each valid for
\* its component, returns exactly that list.
C3_RoundTrip ==
    bflast.op = "interpret" =>
        LET ts == BfTypes(BfHeap, bflast.before)
        IN \A vals \in ValidLists(BfHeap, ts, 1) :
              PackFrom(ts, vals, 1) = bflast.value
              => bflast.exc = NoExc /\ bflast.res = vals

\* a Bool at bit 0 and the Int 1..6 at bit 1, interpreted from 1 | (6 << 1)
C3_Witness ==
    /\ bflast.op = "interpret"
    /\ bflast.value = 13
    /\ bflast.exc = NoExc
    /\ bflast.res = <<PyBool(TRUE), PyInt(6)>>

BitIsSet(value, k) == (value \div Pow2(k)) % 2 = 1

\* a bit of the value that lies in no span of a non-hole component
HasStrayBit(ts, value) ==
    \E k \in 0..bit_length(value) :
        /\ BitIsSet(value, k)
        /\ ~\E i \in 1..Len(ts) : ts[i].pos <= k /\ k < ts[i].pos + ts[i].siz

\* the bits of every component form a value valid for it
SubValuesValid(h, ts, value) ==
    \A i \in 1..Len(ts) :
        LET v == (value \div Pow2(ts[i].pos)) % Pow2(ts[i].siz)
        IN CASE ts[i].tp = shvBool -> TRUE
             [] h[ts[i].tp].kind = "Enum" -> v \in EnumValues(h[ts[i].tp])
             [] OTHER -> IntValidate(h[ts[i].tp], v)

\* C4: a strict Bitfield rejects every integer with a bit outside the spans
\* of its components; a Bitfield that is not strict accepts an integer as
\* soon as the sub-values of all its components are valid.
C4_StrictStrayBits ==
    bflast.op = "validate" =>
        LET ts == BfTypes(BfHeap, bflast.before)
        IN /\ (bitfield.strict /\ HasStrayBit(ts, bflast.value))
              => ~bflast.valid
           /\ (~bitfield.strict /\ SubValuesValid(BfHeap, ts, bflast.value))
              => bflast.valid

\* a strict Bitfield refuses an integer whose only fault is a bit in a hole
C4_Witness ==
    /\ bflast.op = "validate"
    /\ bitfield.strict
    /\ Len(BfTypes(BfHeap, bflast.before)) >= 1
    /\ Len(BfTypes(BfHeap, bflast.before)) < Len(bflast.before)
    /\ HasStrayBit(BfTypes(BfHeap, bflast.before), bflast.value)
    /\ SubValuesValid(BfHeap, BfTypes(BfHeap, bflast.before), bflast.value)
    /\ ~bflast.valid

\* a bit of [bit, bit + valsiz) lies in the span of a component
SpanOccupied(ts, bit, valsiz) ==
    \E i \in 1..Len(ts), k \in bit..(bit + valsiz - 1) :
        ts[i].pos <= k /\ k < ts[i].pos + ts[i].siz

\* C5: set raises whenever a bit of the target span is occupied by a
\* component placed before, wherever in that component the overlap falls.
C5_SetOverlapRaises ==
    (/\ bflast.op = "set"
     /\ SpanOccupied(BfTypes(BfHeap, bflast.before), bflast.bit,
                     SpanOr0(BfHeap, bflast.tp)))
    => bflast.exc = "ValueError"

\* C6: after a set that returns, the type starts at the given bit, every
\* component placed before starts where it started, and the other items
\* are holes.
C6_SetPlaces ==
    (bflast.op = "set" /\ bflast.exc = NoExc /\ bflast.tp # shvNull)
    => LET before == BfTypes(BfHeap, bflast.before)
           after == BfTypes(BfHeap, bitfield.items)
           got == BfGet(BfHeap, bitfield.items, bflast.bit)
       IN /\ got.exc = NoExc /\ got.tp = bflast.tp
          /\ \A i \in 1..Len(before) :
                \E j \in 1..Len(after) :
                    after[j].tp = before[i].tp /\ after[j].pos = before[i].pos
          /\ Len(after) = Len(before) + 1
          /\ \A k \in 1..Len(bitfield.items) :
                bitfield.items[k] = shvNull
                \/ \E j \in 1..Len(after) : after[j].tp = bitfield.items[k]

(***************************************************************************)
(* Raw documents (load.py): the plain values a JSON or YAML file yields.   *)
(* A mapping is the sequence of its <<key, value>> pairs, in order.        *)
(***************************************************************************)
JNull == [j |-> "null"]
JStr(s) == [j |-> "str", s |-> s]
JInt(i) == [j |-> "int", i |-> i]
JBool(b) == [j |-> "bool", b |-> b]
JList(items) == [j |-> "list", items |-> items]
JMap(pairs) == [j |-> "map", pairs |-> pairs]

IsNone(v) == v.j = "null"
IsStr(v) == v.j = "str"
IsBool(v) == v.j = "bool"
\* isinstance(v, int): bool is a subclass of int
IsInt(v) == v.j \in {"int", "bool"}
\* isinstance(v, collections.abc.Sequence): a str is a Sequence too
IsSequence(v) == v.j \in {"list", "str"}
IsMapping(v) == v.j = "map"

IntOf(v) == IF v.j = "bool" THEN (IF v.b THEN 1 ELSE 0) ELSE v.i
OptInt(v) == IF IsNone(v) THEN None ELSE Some(IntOf(v))
OptBool(v) == IF IsNone(v) THEN None ELSE Some(v.b)
OptStr(v) == IF IsNone(v) THEN None ELSE Some(v.s)

\* bool(v)
Truthy(v) ==
    CASE v.j = "null" -> FALSE
      [] v.j = "bool" -> v.b
      [] v.j = "int" -> v.i # 0
      [] v.j = "str" -> v.s # ""
      [] v.j = "list" -> v.items # <<>>
      [] v.j = "map" -> v.pairs # <<>>

\* the characters of the strings the documents hand in where a list is read
Chars(s) == IF s = "ab" THEN <<"a", "b">> ELSE <<s>>

\* iteration over a Sequence
Items(v) ==
    IF v.j = "list" THEN v.items
    ELSE [i \in 1..Len(Chars(v.s)) |-> JStr(Chars(v.s)[i])]

\* key in dict, dict.get(key, default), the dict without some keys, d[key] = value
DictHas(pairs, key) == \E i \in 1..Len(pairs) : pairs[i][1] = key

DictGet(pairs, key, default) ==
    IF DictHas(pairs, key)
    THEN pairs[CHOOSE i \in 1..Len(pairs) : pairs[i][1] = key][2]
    ELSE default

DictDrop(pairs, keys) == SelectSeq(pairs, LAMBDA p : p[1] \notin keys)

DictSet(pairs, key, value) ==
    IF DictHas(pairs, key)
    THEN [i \in 1..Len(pairs) |->
            IF pairs[i][1] = key THEN <<key, value>> ELSE pairs[i]]
    ELSE Append(pairs, <<key, value>>)

\* str(i) of a small integer, as the f-strings of the loader format it
Str(i) == ToString(i)

(***************************************************************************)
(* The state of a load: the heap, _TypesLoader.types and .to_load, the     *)
(* raised exception, the value returned by the last call (ret) and the     *)
(* attrs a sub-loader leaves unconsumed.  Every step passes a failed state *)
(* on untouched: that is the exception unwinding the call stack.           *)
(***************************************************************************)
NoError == [kind |-> "None", location |-> <<>>]

Failed(st) == st.exc.kind # "None"

Raise(st, kind, location) ==
    IF Failed(st) THEN st
    ELSE [st EXCEPT !.exc = [kind |-> kind, location |-> location]]

\* raise SHVTreeValueError(location, msg)
SHVTreeValueError(st, location) == Raise(st, "SHVTreeValueError", location)

\* an exception of the types or the containers: it carries no location
ValueError(st) == Raise(st, "ValueError", <<>>)

\* raise ValueError("Please use shv<Type> instead")
PleaseUse(st, builtin) ==
    IF Failed(st) THEN st
    ELSE [st EXCEPT !.exc = [kind |-> "ValueError", location |-> <<>>,
                             msg |-> "Please use " \o builtin \o " instead"]]
KeyError(st) == Raise(st, "KeyError", <<>>)

Return(st, value) == IF Failed(st) THEN st ELSE [st EXCEPT !.ret = value]

\* object.__new__ and the assignments of __init__: the id is returned
NewObject(st, obj) ==
    IF Failed(st) THEN st
    ELSE [st EXCEPT !.heap = Append(@, obj), !.ret = Len(st.heap) + 1]

\* __new__ that keeps no instance: every call makes an object
InitFresh(st, id, obj) == NewObject(st, obj)

\* __new__ returned the instance kept by the class: __init__ runs on it
\* again with the arguments of this call
InitAgain(st, id, obj) ==
    IF Failed(st) THEN st ELSE [st EXCEPT !.heap[id] = obj, !.ret = id]

TypesAdded(st, r) ==
    IF r.exc # NoExc THEN Raise(st, r.exc, <<>>) ELSE [st EXCEPT !.types = r.ns]

\* self.types.add(obj)
TypesAdd(st, obj) ==
    IF Failed(st) THEN st ELSE TypesAdded(st, NsAdd(st.heap, st.types, obj))

\* self.types.add of the object just made
TypesAddNew(st) == IF Failed(st) THEN st ELSE TypesAdd(st, st.ret)

TypesGot(st, r) ==
    IF r.exc # NoExc THEN Raise(st, r.exc, <<>>) ELSE Return(st, r.obj)

\* return self.types[name]
\* self.types[...] that answers with the first type of the collection
TypesGetFirst(st, name) ==
    IF Failed(st) THEN st
    ELSE TypesGot(st, [exc |-> NoExc, obj |-> st.types[1]])

TypesGet(st, name) ==
    IF Failed(st) THEN st ELSE TypesGot(st, NsGetItem(st.heap, st.types, name))

\* the attrs left when a sub-loader returns
Popped(st, attrs, keys) ==
    IF Failed(st) THEN st ELSE [st EXCEPT !.attrs = DictDrop(attrs, keys)]

(***************************************************************************)
(* The constructors that refuse arguments (types.py).                      *)
(***************************************************************************)
\* SHVTypeInt(...): __new__ hands out the builtins or refuses, __init__
\* refuses negative bounds of an unsigned type
NewInt(st, name, minimum, maximum, multiple_of, unsigned) ==
    IF Failed(st) THEN st
    ELSE IF maximum = None /\ multiple_of = None /\ minimum = None
    THEN IF name = "Int"
         THEN InitAgain(st, shvInt,
                        SHVTypeInt(name, minimum, maximum, multiple_of, unsigned))
         ELSE PleaseUse(st, "shvInt")
    ELSE IF /\ maximum = None /\ multiple_of = None
            /\ minimum = Some(0) /\ unsigned # Some(FALSE)
    THEN IF name = "UInt"
         THEN InitAgain(st, shvUInt,
                        SHVTypeInt(name, minimum, maximum, multiple_of, unsigned))
         ELSE PleaseUse(st, "shvUInt")
    ELSE IF /\ SHVTypeInt(name, minimum, maximum, multiple_of, unsigned).unsigned
            /\ \/ (minimum # None /\ minimum[1] < 0)
               \/ (maximum # None /\ maximum[1] < 0)
    THEN ValueError(st)
    ELSE NewObject(st, SHVTypeInt(name, minimum, maximum, multiple_of, unsigned))

\* SHVTypeString(...)
NewString(st, name, min_length, max_length, pattern) ==
    IF Failed(st) THEN st
    ELSE IF min_length = None /\ max_length = None /\ pattern = None
    THEN IF name = "String" THEN Return(st, shvString)
         ELSE PleaseUse(st, "shvString")
    ELSE NewObject(st, SHVTypeString(name, min_length, max_length, pattern))

\* SHVTypeBlob(...)
NewBlob(st, name, min_length, max_length) ==
    IF Failed(st) THEN st
    ELSE IF min_length = None /\ max_length = None
    THEN IF name = "Blob" THEN Return(st, shvBlob)
         ELSE PleaseUse(st, "shvBlob")
    ELSE NewObject(st, SHVTypeBlob(name, min_length, max_length))


\* SHVTypeDouble(...)
NewDouble(st, name, minimum, maximum, exclusive_minimum, exclusive_maximum, multiple_of) ==
    IF Failed(st) THEN st
    ELSE IF /\ minimum = None /\ maximum = None /\ exclusive_minimum = None
            /\ exclusive_maximum = None /\ multiple_of = None
    THEN IF name = "Double" THEN Return(st, BuiltinByName("Double"))
         ELSE PleaseUse(st, "shvDouble")
    ELSE NewObject(st, [kind |-> "Double", name |-> name, minimum |-> minimum,
                        maximum |-> maximum,
                        exclusive_minimum |-> exclusive_minimum,
                        exclusive_maximum |-> exclusive_maximum,
                        multiple_of |-> multiple_of])

\* SHVTypeDecimal(...)
NewDecimal(st, name, minimum, maximum) ==
    IF Failed(st) THEN st
    ELSE IF minimum = None /\ maximum = None
    THEN IF name = "Decimal" THEN Return(st, BuiltinByName("Decimal"))
         ELSE PleaseUse(st, "shvDecimal")
    ELSE NewObject(st, [kind |-> "Decimal", name |-> name, minimum |-> minimum,
                        maximum |-> maximum])

SHVTypeBitfield(name, items, enum, strict) ==
    [kind |-> "Bitfield", name |-> name, items |-> items, enum |-> enum,
     strict |-> strict]

SHVTypeList(name, allowed, minlen, maxlen) ==
    [kind |-> "List", name |-> name, allowed |-> allowed, minlen |-> minlen,
     maxlen |-> maxlen]

SHVTypeTuple(name, items, enum) ==
    [kind |-> "Tuple", name |-> name, items |-> items, enum |-> enum]

SHVTypeMap(name, pairs) == [kind |-> "Map", name |-> name, pairs |-> pairs]

\* the pairs of an IMap are its _fields: <<index, type>>
SHVTypeIMap(name, pairs, enum) ==
    [kind |-> "IMap", name |-> name, pairs |-> pairs, enum |-> enum]

SHVTypeConstant(name, value) ==
    [kind |-> "Constant", name |-> name, value |-> value]

(***************************************************************************)
(* _TypesLoader._load_enumlike: the <<key, index>> pairs the generator     *)
(* yields, and the error that ends it early.                               *)
(***************************************************************************)
RECURSIVE EnumLikeFrom(_, _, _, _, _)
RECURSIVE EnumLikeMapping(_, _, _, _, _, _, _)

EnumLikeFrom(location, vals, k, nexti, out) ==
    IF k > Len(vals) THEN [pairs |-> out, exc |-> NoError]
    ELSE IF IsNone(vals[k])
    THEN EnumLikeFrom(location, vals, k + 1, nexti + 1, out)
    ELSE IF IsInt(vals[k])
    THEN EnumLikeFrom(location, vals, k + 1, nexti + IntOf(vals[k]), out)
    ELSE IF IsStr(vals[k])
    THEN EnumLikeFrom(location, vals, k + 1, nexti + 1,
                      Append(out, <<vals[k].s, nexti>>))
    ELSE IF IsMapping(vals[k])
    THEN EnumLikeMapping(location, vals, k, nexti, out, vals[k].pairs, 1)
    ELSE [pairs |-> out,
          exc |-> [kind |-> "SHVTreeValueError", location |-> location]]

EnumLikeMapping(location, vals, k, nexti, out, pairs, m) ==
    IF m > Len(pairs) THEN EnumLikeFrom(location, vals, k + 1, nexti, out)
    ELSE IF ~IsInt(pairs[m][2])
    THEN [pairs |-> out,
          exc |-> [kind |-> "SHVTreeValueError",
                   location |-> location \o <<pairs[m][1]>>]]
    ELSE EnumLikeMapping(location, vals, k, IntOf(pairs[m][2]) + 1,
                         Append(out, <<pairs[m][1], IntOf(pairs[m][2])>>),
                         pairs, m + 1)

_load_enumlike(location, values) ==
    IF ~IsSequence(values)
    THEN [pairs |-> <<>>,
          exc |-> [kind |-> "SHVTreeValueError", location |-> location]]
    ELSE EnumLikeFrom(location, Items(values), 1, 0, <<>>)

\* the error of the generator, raised once the pairs before it are consumed
EnumLikeRaise(st, el) ==
    IF Failed(st) \/ el.exc.kind = "None" THEN st
    ELSE Raise(st, el.exc.kind, el.exc.location)

\* res[dkey] = i for every yielded pair
RECURSIVE EnumFill(_, _, _)
EnumFill(pairs, yielded, k) ==
    IF k > Len(yielded) THEN pairs
    ELSE EnumFill(DictSet(pairs, yielded[k][1], yielded[k][2]), yielded, k + 1)

\* an Enum filled from an enum-like list, then added to the types
EnumAdd(st, name, el) ==
    IF Failed(st) THEN st
    ELSE IF el.exc.kind # "None" THEN EnumLikeRaise(st, el)
    ELSE TypesAddNew(NewObject(st, SHVTypeEnum(name, EnumFill(<<>>, el.pairs, 1))))

\* the ascending sequence of a set of integers
RECURSIVE SortedSeq(_)
SortedSeq(S) ==
    IF S = {} THEN <<>>
    ELSE <<CHOOSE m \in S : \A x \in S : m <= x>>
         \o SortedSeq(S \ {CHOOSE m \in S : \A x \in S : m <= x})

\* SHVTypeBitfield.from_enum: a Bool at every value of the enum.  set(i, Bool)
\* on distinct bits gives the same items in whatever order the set is walked.
RECURSIVE FromEnumItems(_, _, _, _)
FromEnumItems(h, items, bits, k) ==
    IF k > Len(bits) THEN items
    ELSE FromEnumItems(h, BfSet(h, items, bits[k], shvBool).items, bits, k + 1)

from_enum(h, name, enum) ==
    SHVTypeBitfield(name,
                    FromEnumItems(h, <<>>, SortedSeq(EnumValues(h[enum])), 1),
                    Some(enum), TRUE)


(***************************************************************************)
(* _TypesLoader (load.py): get_type, load and the sub-loaders.             *)
(***************************************************************************)
RECURSIVE get_type(_, _, _, _)
RECURSIVE load(_, _)

OneOfAdd(st, oneof) ==
    IF Failed(st) THEN st
    ELSE [st EXCEPT !.heap[oneof].types = Append(@, st.ret)]

\* oneof.update(self.get_type(location, name, v) for v in value)
RECURSIVE OneOfUpdate(_, _, _, _, _, _)
OneOfUpdate(st, location, oneof, name, values, k) ==
    IF Failed(st) \/ k > Len(values) THEN st
    ELSE OneOfUpdate(OneOfAdd(get_type(st, location, name, values[k]), oneof),
                     location, oneof, name, values, k + 1)

_load_invalid(st, location, name, attrs) == SHVTreeValueError(st, location)

NoneOrInt(v) == IsNone(v) \/ IsInt(v)

_load_int(st, location, name, attrs) ==
    IF Failed(st) THEN st
    ELSE IF ~NoneOrInt(DictGet(attrs, "minimum", JNull))
    THEN SHVTreeValueError(st, location \o <<"minimum">>)
    ELSE IF ~NoneOrInt(DictGet(attrs, "maximum", JNull))
    THEN SHVTreeValueError(st, location \o <<"maximum">>)
    ELSE IF ~NoneOrInt(DictGet(attrs, "multipleOf", JNull))
    THEN SHVTreeValueError(st, location \o <<"multiple_of">>)
    ELSE IF /\ ~IsNone(DictGet(attrs, "unsigned", JNull))
            /\ ~IsBool(DictGet(attrs, "multipleOf", JNull))
    THEN SHVTreeValueError(st, location \o <<"unsigned">>)
    ELSE Popped(TypesAddNew(NewInt(st, name,
                                   OptInt(DictGet(attrs, "minimum", JNull)),
                                   OptInt(DictGet(attrs, "maximum", JNull)),
                                   OptInt(DictGet(attrs, "multipleOf", JNull)),
                                   OptBool(DictGet(attrs, "unsigned", JNull)))),
                attrs, {"minimum", "maximum", "multipleOf", "unsigned"})

\* the bounds of the documents are integers (int | float in the code)
_load_double(st, location, name, attrs) ==
    IF Failed(st) THEN st
    ELSE IF ~NoneOrInt(DictGet(attrs, "minimum", JNull))
    THEN SHVTreeValueError(st, location \o <<"minimum">>)
    ELSE IF ~NoneOrInt(DictGet(attrs, "exclusiveMinimum", JNull))
    THEN SHVTreeValueError(st, location \o <<"exclusive_minimum">>)
    ELSE IF ~NoneOrInt(DictGet(attrs, "maximum", JNull))
    THEN SHVTreeValueError(st, location \o <<"maximum">>)
    ELSE IF ~NoneOrInt(DictGet(attrs, "exclusiveMaximum", JNull))
    THEN SHVTreeValueError(st, location \o <<"exclusive_maximum">>)
    ELSE IF ~NoneOrInt(DictGet(attrs, "multipleOf", JNull))
    THEN SHVTreeValueError(st, location \o <<"multiple_of">>)
    ELSE Popped(TypesAddNew(NewDouble(st, name,
                    OptInt(DictGet(attrs, "minimum", JNull)),
                    OptInt(DictGet(attrs, "maximum", JNull)),
                    OptInt(DictGet(attrs, "exclusiveMinimum", JNull)),
                    OptInt(DictGet(attrs, "exclusiveMaximum", JNull)),
                    OptInt(DictGet(attrs, "multipleOf", JNull)))),
                attrs, {"minimum", "exclusiveMinimum", "maximum",
                        "exclusiveMaximum", "multipleOf"})

\* the bounds of the documents are integers (int | float | str in the code)
_load_decimal(st, location, name, attrs) ==
    IF Failed(st) THEN st
    ELSE IF ~NoneOrInt(DictGet(attrs, "minimum", JNull))
    THEN SHVTreeValueError(st, location \o <<"minimum">>)
    ELSE IF ~NoneOrInt(DictGet(attrs, "maximum", JNull))
    THEN SHVTreeValueError(st, location \o <<"maximum">>)
    ELSE Popped(TypesAddNew(NewDecimal(st, name,
                    OptInt(DictGet(attrs, "minimum", JNull)),
                    OptInt(DictGet(attrs, "maximum", JNull)))),
                attrs, {"minimum", "maximum"})

\* attrs.pop("minLength", length) and attrs.pop("maxLength", length)
MinLength(attrs) == DictGet(attrs, "minLength", DictGet(attrs, "length", JNull))
MaxLength(attrs) == DictGet(attrs, "maxLength", DictGet(attrs, "length", JNull))

_load_string(st, location, name, attrs) ==
    IF Failed(st) THEN st
    ELSE IF ~NoneOrInt(DictGet(attrs, "length", JNull))
    THEN SHVTreeValueError(st, location \o <<"length">>)
    ELSE IF ~NoneOrInt(MinLength(attrs))
    THEN SHVTreeValueError(st, location \o <<"min_length">>)
    ELSE IF ~NoneOrInt(MaxLength(attrs))
    THEN SHVTreeValueError(st, location \o <<"max_length">>)
    ELSE IF ~(IsNone(DictGet(attrs, "pattern", JNull))
              \/ IsStr(DictGet(attrs, "pattern", JNull)))
    THEN SHVTreeValueError(st, location \o <<"pattern">>)
    ELSE Popped(TypesAddNew(NewString(st, name, OptInt(MinLength(attrs)),
                                      OptInt(MaxLength(attrs)),
                                      OptStr(DictGet(attrs, "pattern", JNull)))),
                attrs, {"length", "minLength", "maxLength", "pattern"})

_load_blob(st, location, name, attrs) ==
    IF Failed(st) THEN st
    ELSE IF ~NoneOrInt(DictGet(attrs, "length", JNull))
    THEN SHVTreeValueError(st, location \o <<"length">>)
    ELSE IF ~NoneOrInt(MinLength(attrs))
    THEN SHVTreeValueError(st, location \o <<"min_length">>)
    ELSE IF ~NoneOrInt(MaxLength(attrs))
    THEN SHVTreeValueError(st, location \o <<"max_length">>)
    ELSE Popped(TypesAddNew(NewBlob(st, name, OptInt(MinLength(attrs)),
                                    OptInt(MaxLength(attrs)))),
                attrs, {"length", "minLength", "maxLength"})

_load_enum(st, location, name, attrs) ==
    Popped(EnumAdd(st, name,
                   _load_enumlike(location \o <<"values">>,
                                  DictGet(attrs, "values", JList(<<>>)))),
           attrs, {"values"})

SubenumIsEnum(st, location) ==
    IF Failed(st) THEN st
    ELSE IF st.heap[st.ret].kind # "Enum" THEN SHVTreeValueError(st, location)
    ELSE st

\* the enum is returned in st.ret
_load_subenum(st, location, name, enum) ==
    IF Failed(st) THEN st
    ELSE IF IsStr(enum)
    THEN SubenumIsEnum(get_type(st, location, name, enum), location)
    ELSE EnumAdd(st, name \o "Enum", _load_enumlike(location, enum))


BitfieldSetDone(st, bf, r) ==
    IF r.exc # NoExc THEN Raise(st, r.exc, <<>>)
    ELSE [st EXCEPT !.heap[bf].items = r.items]

\* the type found is in st.ret: its span is asked, then res.set(i, rtp)
BitfieldPlace(st, location, bf, bit) ==
    IF Failed(st) THEN st
    ELSE IF ~AliasEnds(st.heap, st.ret, {}) THEN Raise(st, "RecursionError", <<>>)
    ELSE IF type_span(st.heap, st.ret) = None THEN SHVTreeValueError(st, location)
    ELSE BitfieldSetDone(st, bf, BfSet(st.heap, st.heap[bf].items, bit, st.ret))

RECURSIVE BitfieldTypes(_, _, _, _, _, _)
BitfieldTypes(st, location, name, bf, pairs, k) ==
    IF Failed(st) \/ k > Len(pairs) THEN st
    ELSE BitfieldTypes(
            BitfieldPlace(get_type(st, location, name, JStr(pairs[k][1])),
                          location, bf, pairs[k][2]),
            location, name, bf, pairs, k + 1)

BitfieldTypesAll(st, location, name, bf, el) ==
    EnumLikeRaise(BitfieldTypes(st, location, name, bf, el.pairs, 1), el)

BitfieldTypesIf(st, location, name, bf, rtypes) ==
    IF Failed(st) \/ IsNone(rtypes) THEN st
    ELSE BitfieldTypesAll(st, location \o <<"types">>, name, bf,
                          _load_enumlike(location \o <<"types">>, rtypes))

TypesDeleted(st, r) ==
    IF r.exc # NoExc THEN Raise(st, r.exc, <<>>) ELSE [st EXCEPT !.types = r.ns]

\* del self.types[name]
TypesDel(st, name) ==
    IF Failed(st) THEN st
    ELSE TypesDeleted(st, NsDelItem(st.heap, st.types, name))

\* the enum is in st.ret; without a types list the bitfield is made anew
\* from the enum and replaces the one added at the start
BitfieldEnumDone(st, name, rtypes) ==
    IF Failed(st) \/ ~IsNone(rtypes) THEN st
    ELSE TypesAddNew(TypesDel(NewObject(st, from_enum(st.heap, name, st.ret)),
                              name))

BitfieldEnum(st, location, name, rtypes, renum) ==
    IF Failed(st) \/ IsNone(renum) THEN st
    ELSE BitfieldEnumDone(_load_subenum(st, location \o <<"enum">>, name, renum),
                          name, rtypes)

_load_bitfield(st, location, name, attrs) ==
    IF Failed(st) THEN st
    ELSE Popped(
            BitfieldEnum(
                BitfieldTypesIf(
                    TypesAddNew(NewObject(st, SHVTypeBitfield(name, <<>>, None,
                                                              TRUE))),
                    location, name, Len(st.heap) + 1,
                    DictGet(attrs, "types", JNull)),
                location, name, DictGet(attrs, "types", JNull),
                DictGet(attrs, "enum", JNull)),
            attrs, {"types", "enum"})

ListSetAllowed(st, lst) ==
    IF Failed(st) THEN st ELSE [st EXCEPT !.heap[lst].allowed = st.ret]

_load_list(st, location, name, attrs) ==
    IF Failed(st) THEN st
    ELSE IF ~IsInt(DictGet(attrs, "minlen", JInt(0)))
    THEN SHVTreeValueError(st, location \o <<"minlen">>)
    ELSE IF ~NoneOrInt(DictGet(attrs, "maxlen", JNull))
    THEN SHVTreeValueError(st, location \o <<"maxlen">>)
    ELSE Popped(
            ListSetAllowed(
                get_type(TypesAddNew(NewObject(st,
                             SHVTypeList(name, shvAny,
                                 IntOf(DictGet(attrs, "minlen", JInt(0))),
                                 OptInt(DictGet(attrs, "maxlen", JNull))))),
                         location \o <<"allowed">>, name,
                         DictGet(attrs, "allowed", JNull)),
                Len(st.heap) + 1),
            attrs, {"minlen", "maxlen", "allowed"})

TupleAppend(st, tup) ==
    IF Failed(st) THEN st ELSE [st EXCEPT !.heap[tup].items = Append(@, st.ret)]

\* for i, tp in enumerate(items): res.append(self.get_type(...))
RECURSIVE TupleItems(_, _, _, _, _, _)
TupleItems(st, location, name, tup, items, k) ==
    IF Failed(st) \/ k > Len(items) THEN st
    ELSE TupleItems(
            TupleAppend(get_type(st,
                                 location \o <<"items[" \o Str(k - 1) \o "]">>,
                                 name \o Str(k - 1), items[k]),
                        tup),
            location, name, tup, items, k + 1)

TupleItemsIf(st, location, name, tup, items) ==
    IF Failed(st) THEN st
    ELSE IF ~IsSequence(items) THEN SHVTreeValueError(st, location \o <<"items">>)
    ELSE TupleItems(st, location, name, tup, Items(items), 1)

SetEnum(st, obj) ==
    IF Failed(st) THEN st ELSE [st EXCEPT !.heap[obj].enum = Some(st.ret)]

\* res.enum = self._load_subenum([*location, "enum"], name, enum)
EnumIf(st, location, name, obj, enum) ==
    IF Failed(st) \/ IsNone(enum) THEN st
    ELSE SetEnum(_load_subenum(st, location \o <<"enum">>, name, enum), obj)

_load_tuple(st, location, name, attrs) ==
    IF Failed(st) THEN st
    ELSE Popped(
            EnumIf(TupleItemsIf(
                       TypesAddNew(NewObject(st, SHVTypeTuple(name, <<>>, None))),
                       location, name, Len(st.heap) + 1,
                       DictGet(attrs, "items", JList(<<>>))),
                   location, name, Len(st.heap) + 1,
                   DictGet(attrs, "enum", JNull)),
            attrs, {"items", "enum"})

MapSet(st, mp, key) ==
    IF Failed(st) THEN st
    ELSE [st EXCEPT !.heap[mp].pairs = DictSet(@, key, st.ret)]

\* for key, value in fields.items(): res[key] = self.get_type(...)
RECURSIVE MapFields(_, _, _, _, _, _)
MapFields(st, location, name, mp, fields, k) ==
    IF Failed(st) \/ k > Len(fields) THEN st
    ELSE IF ~IsStr(fields[k][2])
    THEN SHVTreeValueError(st, location \o <<"fields", fields[k][1]>>)
    ELSE MapFields(MapSet(get_type(st, location \o <<"fields">>, name,
                                   fields[k][2]),
                          mp, fields[k][1]),
                   location, name, mp, fields, k + 1)

MapFieldsIf(st, location, name, mp, fields) ==
    IF Failed(st) THEN st
    ELSE IF ~IsMapping(fields) THEN SHVTreeValueError(st, location \o <<"fields">>)
    ELSE MapFields(st, location, name, mp, fields.pairs, 1)

_load_map(st, location, name, attrs) ==
    IF Failed(st) THEN st
    ELSE Popped(MapFieldsIf(
                    TypesAddNew(NewObject(st, SHVTypeMap(name, <<>>))),
                    location, name, Len(st.heap) + 1,
                    DictGet(attrs, "fields", JMap(<<>>))),
                attrs, {"fields"})


IMapSetInt(st, im, i) ==
    IF Failed(st) THEN st
    ELSE [st EXCEPT !.heap[im].pairs = DictSet(@, i, st.ret)]

\* SHVTypeIMap.__setitem__(key, value), the value in st.ret: a string key
\* goes through the enum
IMapSet(st, im, key) ==
    IF Failed(st) THEN st
    ELSE IF ~IsStr(key) THEN IMapSetInt(st, im, IntOf(key))
    ELSE IF st.heap[im].enum = None THEN KeyError(st)
    ELSE IF ~DictHas(st.heap[st.heap[im].enum[1]].pairs, key.s) THEN KeyError(st)
    ELSE IMapSetInt(st, im,
                    DictGet(st.heap[st.heap[im].enum[1]].pairs, key.s, 0))

\* fields given as a mapping
RECURSIVE IMapMapping(_, _, _, _, _, _)
IMapMapping(st, location, name, im, fields, k) ==
    IF Failed(st) \/ k > Len(fields) THEN st
    ELSE IMapMapping(
            IMapSet(get_type(st, location \o <<"fields">>,
                             name \o fields[k][1], fields[k][2]),
                    im, JStr(fields[k][1])),
            location, name, im, fields, k + 1)

\* fields given as a list: a name takes the next index, a mapping names it
RECURSIVE IMapList(_, _, _, _, _, _, _)
RECURSIVE IMapListMapping(_, _, _, _, _, _, _, _, _)

IMapList(st, location, name, im, fields, k, nexti) ==
    IF Failed(st) \/ k > Len(fields) THEN st
    ELSE IF IsStr(fields[k])
    THEN IMapList(IMapSetInt(get_type(st, location \o <<"fields">>,
                                      name \o Str(nexti), fields[k]),
                             im, nexti),
                  location, name, im, fields, k + 1, nexti + 1)
    ELSE IF IsMapping(fields[k])
    THEN IMapListMapping(st, location, name, im, fields, k, nexti,
                         fields[k].pairs, 1)
    ELSE SHVTreeValueError(st, location \o <<"fields">>)

IMapListMapping(st, location, name, im, fields, k, nexti, pairs, m) ==
    IF Failed(st) THEN st
    ELSE IF m > Len(pairs)
    THEN IMapList(st, location, name, im, fields, k + 1, nexti)
    ELSE IMapListMapping(
            IMapSet(get_type(st,
                             location \o <<"fields[" \o Str(k - 1) \o "]",
                                           pairs[m][1]>>,
                             name \o Str(IntOf(pairs[m][2])),
                             JStr(pairs[m][1])),
                    im, pairs[m][2]),
            location, name, im, fields, k, IntOf(pairs[m][2]) + 1, pairs, m + 1)

IMapFields(st, location, name, im, fields) ==
    IF Failed(st) THEN st
    ELSE IF IsMapping(fields)
    THEN IMapMapping(st, location, name, im, fields.pairs, 1)
    ELSE IF IsSequence(fields)
    THEN IMapList(st, location, name, im, Items(fields), 1, 0)
    ELSE SHVTreeValueError(st, location \o <<"fields">>)

_load_imap(st, location, name, attrs) ==
    IF Failed(st) THEN st
    ELSE Popped(
            IMapFields(
                EnumIf(TypesAddNew(NewObject(st, SHVTypeIMap(name, <<>>, None))),
                       location, name, Len(st.heap) + 1,
                       DictGet(attrs, "enum", JNull)),
                location, name, Len(st.heap) + 1,
                DictGet(attrs, "fields", JList(<<>>))),
            attrs, {"enum", "fields"})

\* every value of a document is a valid SHV value (shvAny.validate); a string
\* would first go through shv.Cpon.unpack: the constants of the documents
\* are not strings
_load_constant(st, location, name, attrs) ==
    IF Failed(st) THEN st
    ELSE IF IsNone(DictGet(attrs, "value", JNull))
    THEN SHVTreeValueError(st, location \o <<"value">>)
    ELSE Popped(TypesAddNew(NewObject(st,
                    SHVTypeConstant(name, DictGet(attrs, "value", JNull)))),
                attrs, {"value"})

\* self.loaders.get(attrs.pop("type"), type(self)._load_invalid)(...)
loaders(st, tp, location, name, attrs) ==
    CASE tp = JStr("Int") -> _load_int(st, location, name, attrs)
      [] tp = JStr("Double") -> _load_double(st, location, name, attrs)
      [] tp = JStr("Decimal") -> _load_decimal(st, location, name, attrs)
      [] tp = JStr("String") -> _load_string(st, location, name, attrs)
      [] tp = JStr("Blob") -> _load_blob(st, location, name, attrs)
      [] tp = JStr("Enum") -> _load_enum(st, location, name, attrs)
      [] tp = JStr("Bitfield") -> _load_bitfield(st, location, name, attrs)
      [] tp = JStr("List") -> _load_list(st, location, name, attrs)
      [] tp = JStr("Tuple") -> _load_tuple(st, location, name, attrs)
      [] tp = JStr("Map") -> _load_map(st, location, name, attrs)
      [] tp = JStr("IMap") -> _load_imap(st, location, name, attrs)
      [] tp = JStr("Constant") -> _load_constant(st, location, name, attrs)
      [] OTHER -> _load_invalid(st, location, name, attrs)

\* if attrs: raise ... "Invalid keys"
LeftoverAttrs(st, location) ==
    IF Failed(st) THEN st
    ELSE IF st.attrs # <<>> THEN SHVTreeValueError(st, location)
    ELSE st

AliasSetType(st, alias) ==
    IF Failed(st) THEN st ELSE [st EXCEPT !.heap[alias].type = st.ret]

\* assert name in self.types
AssertLoaded(st, name) ==
    IF Failed(st) THEN st
    ELSE IF ~NsContainsName(st.heap, st.types, name)
    THEN Raise(st, "AssertionError", <<>>)
    ELSE st

\* the branches of load on the kind of the declaration
LoadValue(st, location, name, value) ==
    IF IsStr(value)
    THEN AliasSetType(
            get_type(TypesAddNew(NewObject(st, SHVTypeAlias(name, shvAny))),
                     location, name, value),
            Len(st.heap) + 1)
    ELSE IF IsSequence(value)
    THEN OneOfUpdate(TypesAddNew(NewObject(st, SHVTypeOneOf(name, <<>>))),
                     location, Len(st.heap) + 1, name, Items(value), 1)
    ELSE IF IsMapping(value)
    THEN IF ~DictHas(value.pairs, "type") THEN SHVTreeValueError(st, location)
         ELSE LeftoverAttrs(loaders(st, DictGet(value.pairs, "type", JNull),
                                    location, name,
                                    DictDrop(value.pairs, {"type"})),
                            location)
    ELSE SHVTreeValueError(st, location)

\* a deque in which no name is ever found waiting
InToLoadNever(to_load, value) == FALSE

\* the forward reference: value in self.to_load
InToLoad(to_load, value) == \E i \in 1..Len(to_load) : to_load[i] = value

\* deque.remove(value)
DequeRemove(to_load, value) ==
    SeqRemoveAt(to_load, CHOOSE i \in 1..Len(to_load) :
                            /\ to_load[i] = value
                            /\ \A j \in 1..(i - 1) : to_load[j] # value)

load(st, name) ==
    IF Failed(st) THEN st
    ELSE IF IsBuiltinName(name) THEN SHVTreeValueError(st, <<"types", name>>)
    ELSE AssertLoaded(LoadValue(st, <<"types", name>>, name,
                                DictGet(st.data, name, JNull)),
                      name)

get_type(st, location, name, value) ==
    IF Failed(st) THEN st
    ELSE IF IsNone(value) THEN Return(st, shvNull)
    ELSE IF IsStr(value)
    THEN IF IsBuiltinName(value.s) THEN Return(st, BuiltinByName(value.s))
         ELSE IF NsContainsName(st.heap, st.types, value.s)
         THEN TypesGet(st, value.s)
         ELSE IF InToLoad(st.to_load, value.s)
         THEN TypesGet(load([st EXCEPT !.to_load = DequeRemove(@, value.s)],
                            value.s),
                       value.s)
         ELSE SHVTreeValueError(st, location)
    ELSE IF IsSequence(value)
    THEN Return(OneOfUpdate(
                    TypesAddNew(NewObject(st, SHVTypeOneOf(name \o "OneOf", <<>>))),
                    location, Len(st.heap) + 1, name \o "OneOf", Items(value), 1),
                Len(st.heap) + 1)
    ELSE SHVTreeValueError(st, location)

\* while self.to_load: self.load(self.to_load.popleft())
RECURSIVE load_all(_)
load_all(st) ==
    IF Failed(st) \/ st.to_load = <<>> THEN st
    ELSE load_all(load([st EXCEPT !.to_load = Tail(@)], Head(st.to_load)))

\* the keys of a mapping, in order
DictKeys(pairs) == [i \in 1..Len(pairs) |-> pairs[i][1]]

\* load_types(data) on the heap h
load_types(h, data) ==
    IF ~IsMapping(data)
    THEN [heap |-> h, types |-> <<>>, to_load |-> <<>>, data |-> <<>>,
          exc |-> [kind |-> "SHVTreeValueError", location |-> <<"types">>],
          ret |-> 0, attrs |-> <<>>]
    ELSE load_all([heap |-> h, types |-> <<>>, to_load |-> DictKeys(data.pairs),
                   data |-> data.pairs, exc |-> NoError, ret |-> 0,
                   attrs |-> <<>>])


(***************************************************************************)
(* Nodes and methods (node.py, method.py, load.py).  A node and a method   *)
(* are records; the NamedSets holding them are sequences of records.       *)
(***************************************************************************)
\* the names of shv.RpcMethodFlags this package refers to
RpcMethodFlags == {"NOT_CALLABLE", "GETTER", "SETTER"}

\* str.upper() of the flags the documents spell
Upper(s) ==
    CASE s = "getter" -> "GETTER"
      [] s = "setter" -> "SETTER"
      [] s = "not_callable" -> "NOT_CALLABLE"
      [] s = "bogus" -> "BOGUS"
      [] OTHER -> s

\* SHVMethod(name, param, result, flags, access, description)
SHVMethod(name, param, result, flags, access, description) ==
    IF name \in {"ls", "dir", "lsmod"}
    THEN [exc |-> [kind |-> "ValueError", location |-> <<>>], method |-> <<>>]
    ELSE [exc |-> NoError,
          method |-> [name |-> name, param |-> param, result |-> result,
                      flags |-> flags, access |-> access,
                      description |-> description]]

new_getter(dtype) ==
    SHVMethod("get", BuiltinByName("_getParam"), dtype, {"GETTER"}, "rd", "")

new_setter(dtype) == SHVMethod("set", dtype, shvNull, {"SETTER"}, "wr", "")

new_signal(name, dtype) ==
    SHVMethod(name, shvNull, dtype, {"NOT_CALLABLE"}, "rd", "")

\* NamedSet.add of a constructed method: the constructor may have raised
MethodsAdd(r, m) ==
    IF r.exc.kind # "None" THEN r
    ELSE IF m.exc.kind # "None" THEN [exc |-> m.exc, methods |-> r.methods]
    ELSE IF \E i \in 1..Len(r.methods) : r.methods[i].name = m.method.name
    THEN [exc |-> [kind |-> "ValueError", location |-> <<>>],
          methods |-> r.methods]
    ELSE [exc |-> NoError, methods |-> Append(r.methods, m.method)]

\* a setter that is added whatever readonly says
AddSetterAlways(r, dtype, readonly) == MethodsAdd(r, new_setter(dtype))

AddSetter(r, dtype, readonly) ==
    IF readonly THEN r ELSE MethodsAdd(r, new_setter(dtype))

AddSignal(r, dtype, readonly, signal) ==
    IF Truthy(signal) \/ (IsNone(signal) /\ ~readonly)
    THEN MethodsAdd(r, new_signal(IF IsStr(signal) THEN signal.s ELSE "chng",
                                  dtype))
    ELSE r

\* SHVNode.make_property(dtype, readonly, signal) on the methods of a node;
\* signal is a document value (null for None)
make_property(methods, dtype, readonly, signal) ==
    AddSignal(AddSetter(MethodsAdd([exc |-> NoError, methods |-> methods],
                                   new_getter(dtype)),
                        dtype, readonly),
              dtype, readonly, signal)

\* _get_type(location, types, name): [exc, obj]
_get_type(h, types, location, name) ==
    IF IsNone(name) THEN [exc |-> NoError, obj |-> shvNull]
    ELSE IF IsStr(name) /\ IsBuiltinName(name.s)
    THEN [exc |-> NoError, obj |-> BuiltinByName(name.s)]
    ELSE IF ~(IsStr(name) /\ NsContainsName(h, types, name.s))
    THEN [exc |-> [kind |-> "SHVTreeValueError", location |-> location],
          obj |-> 0]
    ELSE [exc |-> NoError, obj |-> NsGetItem(h, types, name.s).obj]

\* dict(d) if d is not None else {}
DictOrEmpty(d) == IF IsNone(d) THEN <<>> ELSE d.pairs

\* the flags of a method declaration
FlagsOf(dmethod) ==
    IF IsNone(DictGet(dmethod, "flags", JNull)) THEN <<>>
    ELSE Items(DictGet(dmethod, "flags", JNull))

StrOr(v, default) == IF IsStr(v) THEN v.s ELSE default

\* the body of the loop of _load_methods for one declaration: [exc, method]
LoadMethod(h, types, location, name, dmethod) ==
    IF _get_type(h, types, location, DictGet(dmethod, "param", JNull)).exc.kind
       # "None"
    THEN [exc |-> [kind |-> "SHVTreeValueError", location |-> location],
          method |-> <<>>]
    ELSE IF _get_type(h, types, location,
                      DictGet(dmethod, "result", JNull)).exc.kind # "None"
    THEN [exc |-> [kind |-> "SHVTreeValueError", location |-> location],
          method |-> <<>>]
    ELSE IF \E i \in 1..Len(FlagsOf(dmethod)) :
                Upper(FlagsOf(dmethod)[i].s) \notin RpcMethodFlags
    THEN [exc |-> [kind |-> "SHVTreeValueError",
                   location |-> location \o <<"flags">>],
          method |-> <<>>]
    ELSE IF DictDrop(dmethod, {"param", "result", "access", "description",
                               "flags"}) # <<>>
    THEN [exc |-> [kind |-> "SHVTreeValueError", location |-> location],
          method |-> <<>>]
    ELSE SHVMethod(name,
                   _get_type(h, types, location,
                             DictGet(dmethod, "param", JNull)).obj,
                   _get_type(h, types, location,
                             DictGet(dmethod, "result", JNull)).obj,
                   {Upper(FlagsOf(dmethod)[i].s) :
                        i \in 1..Len(FlagsOf(dmethod))},
                   StrOr(DictGet(dmethod, "access", JNull), "cmd"),
                   StrOr(DictGet(dmethod, "description", JNull), ""))

RECURSIVE MethodsFrom(_, _, _, _, _, _)
MethodsFrom(h, types, location, pairs, k, r) ==
    IF r.exc.kind # "None" \/ k > Len(pairs) THEN r
    ELSE MethodsFrom(h, types, location, pairs, k + 1,
                     MethodsAdd(r, LoadMethod(h, types,
                                              location \o <<pairs[k][1]>>,
                                              pairs[k][1],
                                              DictOrEmpty(pairs[k][2]))))

\* _load_methods(location, data, types): [exc, methods]
_load_methods(h, types, location, data) ==
    IF ~IsMapping(data)
    THEN [exc |-> [kind |-> "SHVTreeValueError", location |-> location],
          methods |-> <<>>]
    ELSE MethodsFrom(h, types, location, data.pairs, 1,
                     [exc |-> NoError, methods |-> <<>>])


\* SHVNode(name, nodes, methods, description)
SHVNode(name, nodes, methods, description) ==
    [name |-> name, nodes |-> nodes, methods |-> methods,
     description |-> description]

\* the result of a step of load_nodes: the exception raised, or the node
NodeRaise(kind, location) ==
    [exc |-> [kind |-> kind, location |-> location], node |-> <<>>]

\* node.make_property(shvtype, readonly, signal), when _get_type succeeded
NodeMadeProperty(node, mp) ==
    IF mp.exc.kind # "None" THEN [exc |-> mp.exc, node |-> <<>>]
    ELSE [exc |-> NoError, node |-> [node EXCEPT !.methods = mp.methods]]

NodeMakeProperty(node, shvtype, readonly, signal) ==
    IF shvtype.exc.kind # "None" THEN [exc |-> shvtype.exc, node |-> <<>>]
    ELSE NodeMadeProperty(node, make_property(node.methods, shvtype.obj,
                                              readonly, signal))

\* if prop is not None: ... node.make_property(shvtype, readonly, signal)
NodeProperty(h, types, name, dnode, r, readonly) ==
    IF r.exc.kind # "None" THEN r
    ELSE IF IsNone(DictGet(dnode, "property", JNull)) THEN r
    ELSE NodeMakeProperty(r.node,
                          _get_type(h, types, <<"nodes", name, "property">>,
                                    DictGet(dnode, "property", JNull)),
                          readonly,
                          DictGet(dnode, "signal", JBool(~readonly)))

\* the keys of a node declaration the loop pops
NodePopped(dnode) ==
    IF IsNone(DictGet(dnode, "property", JNull))
    THEN {"nodes", "methods", "description", "property"}
    ELSE {"nodes", "methods", "description", "property", "readonly", "signal"}

\* if dnode: raise ... "Unsupported keys"
NodeLeftover(name, dnode, r) ==
    IF r.exc.kind # "None" THEN r
    ELSE IF DictDrop(dnode, NodePopped(dnode)) # <<>>
    THEN NodeRaise("SHVTreeValueError", <<"nodes", name>>)
    ELSE r

\* SHVNode(name, nodes=shvnodes, methods=shvmethods, description=description)
NodeMade(name, dnode, shvnodes, shvmethods) ==
    IF shvnodes.exc.kind # "None" THEN [exc |-> shvnodes.exc, node |-> <<>>]
    ELSE IF shvmethods.exc.kind # "None"
    THEN [exc |-> shvmethods.exc, node |-> <<>>]
    ELSE [exc |-> NoError,
          node |-> SHVNode(name, shvnodes.nodes, shvmethods.methods,
                           StrOr(DictGet(dnode, "description", JNull), ""))]

\* x if x is not None else {}
OrEmptyMap(v) == IF IsNone(v) THEN JMap(<<>>) ELSE v

\* res.add(node)
NodesAdd(res, r) ==
    IF res.exc.kind # "None" THEN res
    ELSE IF r.exc.kind # "None" THEN [exc |-> r.exc, nodes |-> res.nodes]
    ELSE IF \E i \in 1..Len(res.nodes) : res.nodes[i].name = r.node.name
    THEN [exc |-> [kind |-> "ValueError", location |-> <<>>],
          nodes |-> res.nodes]
    ELSE [exc |-> NoError, nodes |-> Append(res.nodes, r.node)]

RECURSIVE load_nodes(_, _, _)
RECURSIVE NodesFrom(_, _, _, _, _)

\* the body of the loop of load_nodes for one declaration; the location of
\* every level is ["nodes"]
LoadNode(h, types, name, dnode) ==
    NodeLeftover(name, dnode,
        NodeProperty(h, types, name, dnode,
            NodeMade(name, dnode,
                     load_nodes(h, types,
                                OrEmptyMap(DictGet(dnode, "nodes", JNull))),
                     _load_methods(h, types, <<"nodes", name, "methods">>,
                                   OrEmptyMap(DictGet(dnode, "methods", JNull)))),
            Truthy(DictGet(dnode, "readonly", JBool(FALSE)))))

NodesFrom(h, types, pairs, k, res) ==
    IF res.exc.kind # "None" \/ k > Len(pairs) THEN res
    ELSE NodesFrom(h, types, pairs, k + 1,
                   NodesAdd(res, LoadNode(h, types, pairs[k][1],
                                          DictOrEmpty(pairs[k][2]))))

\* load_nodes(data, types): [exc, nodes]
load_nodes(h, types, data) ==
    IF ~IsMapping(data)
    THEN [exc |-> [kind |-> "SHVTreeValueError", location |-> <<"nodes">>],
          nodes |-> <<>>]
    ELSE NodesFrom(h, types, data.pairs, 1, [exc |-> NoError, nodes |-> <<>>])

\* SHVTree(types=shvtypes, nodes=shvnodes)
SHVTree(nodes, types) == [nodes |-> nodes, types |-> types]

\* the outcome of load_raw: the heap, the exception that escaped and the
\* returned tree
Escaped(h, exc) == [heap |-> h, exc |-> exc, tree |-> None]

LoadRawEnd(st, shvnodes, data) ==
    IF shvnodes.exc.kind # "None" THEN Escaped(st.heap, shvnodes.exc)
    ELSE IF data # <<>>
    THEN Escaped(st.heap, [kind |-> "SHVTreeValueError", location |-> <<>>])
    ELSE [heap |-> st.heap, exc |-> NoError,
          tree |-> Some(SHVTree(shvnodes.nodes, st.types))]

LoadRawNodes(st, data) ==
    IF Failed(st) THEN Escaped(st.heap, st.exc)
    ELSE LoadRawEnd(st,
                    load_nodes(st.heap, st.types,
                               DictGet(data, "nodes", JMap(<<>>))),
                    DictDrop(data, {"types", "nodes"}))

\* load_raw(data) on the heap h
load_raw(h, data) ==
    IF ~IsMapping(data)
    THEN Escaped(h, [kind |-> "SHVTreeValueError", location |-> <<>>])
    ELSE LoadRawNodes(load_types(h, DictGet(data.pairs, "types", JMap(<<>>))),
                      data.pairs)

(***************************************************************************)
(* Equality of trees (shvtree.py, node.py, method.py).  The NamedSets are  *)
(* Mappings: they compare as dicts, by name, a value being equal when it   *)
(* is the same object or compares equal.                                   *)
(***************************************************************************)
\* SHVMethod.__eq__
MethodEq(h, a, b) ==
    /\ a.name = b.name
    /\ PyEq(h, a.param, b.param)
    /\ PyEq(h, a.result, b.result)
    /\ a.flags = b.flags
    /\ a.description = b.description

\* NamedSet[SHVMethod] == NamedSet[SHVMethod]
MethodsEq(h, xs, ys) ==
    /\ Len(xs) = Len(ys)
    /\ \A i \in 1..Len(xs) :
         \E j \in 1..Len(ys) : xs[i].name = ys[j].name /\ MethodEq(h, xs[i], ys[j])

RECURSIVE NodeEq(_, _, _)

\* NamedSet[SHVNode] == NamedSet[SHVNode]
NodesEq(h, xs, ys) ==
    /\ Len(xs) = Len(ys)
    /\ \A i \in 1..Len(xs) :
         \E j \in 1..Len(ys) : xs[i].name = ys[j].name /\ NodeEq(h, xs[i], ys[j])

\* SHVNode.__eq__
NodeEq(h, a, b) ==
    /\ a.name = b.name
    /\ NodesEq(h, a.nodes, b.nodes)
    /\ MethodsEq(h, a.methods, b.methods)
    /\ a.description = b.description

\* NamedSet[SHVTypeBase] == NamedSet[SHVTypeBase]
TypesEq(h, xs, ys) ==
    /\ Len(xs) = Len(ys)
    /\ \A i \in 1..Len(xs) :
         \E j \in 1..Len(ys) :
            /\ h[xs[i]].name = h[ys[j]].name
            /\ (xs[i] = ys[j] \/ PyEq(h, xs[i], ys[j]))

\* SHVTree.__eq__: the nodes as SHVNode.__eq__ compares them, then the types
TreeEq(h, a, b) == NodesEq(h, a.nodes, b.nodes) /\ TypesEq(h, a.types, b.types)


(***************************************************************************)
(* The documents handed to load_raw.  The declarations of the types are    *)
(* drawn from a pool over the names A and B, the builtin name Int and the  *)
(* derived name AOneOf; a reference goes to B or to a builtin, and B       *)
(* refers to nothing, so the types of a document never form a cycle.       *)
(***************************************************************************)
TypeOf(kind, attrs) == JMap(<<<<"type", JStr(kind)>>>> \o attrs)

IntMax5 == TypeOf("Int", <<<<"maximum", JInt(5)>>>>)
IntMin1 == TypeOf("Int", <<<<"minimum", JInt(1)>>>>)
IntPlain == TypeOf("Int", <<>>)
BlobMax4 == TypeOf("Blob", <<<<"maxLength", JInt(4)>>>>)
EnumAB == TypeOf("Enum", <<<<"values", JList(<<JStr("a"), JStr("b")>>)>>>>)

\* an Int declaration that carries the key unsigned
IntUnsigned(attrs, unsigned) ==
    TypeOf("Int", attrs \o <<<<"unsigned", unsigned>>>>)

\* a Bitfield declaration with a types list
BitfieldOf(types) == TypeOf("Bitfield", <<<<"types", JList(types)>>>>)

\* the types lists of the Bitfield declarations: names, skips, null and
\* mappings name -> bit
BitfieldLists ==
    { <<JStr("Bool"), JInt(2), JStr("UInt8"), JMap(<<<<"Bool", JInt(12)>>>>)>>,
      <<JStr("Bool"), JNull, JStr("Bool")>>,
      <<JStr("UInt8"), JStr("Bool")>>,
      <<JStr("Bool"), JMap(<<<<"Bool", JInt(0)>>>>)>> }

\* declarations that refer to no declared type
PlainValues == {IntMax5, IntMin1, IntPlain, BlobMax4, EnumAB}

\* declarations of A: references, containers, malformed declarations
ReferringValues ==
    { JStr("B"),
      JStr("Int"),
      JStr("C"),
      JList(<<JStr("Int"), JStr("B")>>),
      TypeOf("List", <<<<"allowed", JList(<<JStr("Null"), JStr("B")>>)>>>>),
      TypeOf("Bogus", <<>>),
      TypeOf("Int", <<<<"maximum", JInt(5)>>, <<"extra", JInt(1)>>>>),
      TypeOf("Int", <<<<"minimum", JInt(0)>>, <<"unsigned", JBool(TRUE)>>>>),
      IntUnsigned(<<<<"minimum", JInt(0)>>, <<"maximum", JInt(5)>>>>,
                  JBool(TRUE)),
      IntUnsigned(<<<<"maximum", JInt(5)>>>>, JBool(FALSE)),
      IntUnsigned(<<<<"maximum", JInt(5)>>>>, JStr("x")),
      IntUnsigned(<<<<"maximum", JInt(5)>>, <<"multipleOf", JBool(TRUE)>>>>,
                  JBool(TRUE)),
      TypeOf("String", <<<<"maxLength", JInt(3)>>>>),
      TypeOf("Bitfield", <<<<"types", JList(<<JStr("Bool"), JStr("B")>>)>>>>),
      TypeOf("Bitfield", <<<<"enum", JList(<<JStr("a"), JStr("b")>>)>>>>),
      TypeOf("Tuple", <<<<"items", JList(<<JStr("Int"), JStr("B")>>)>>>>),
      TypeOf("Map", <<<<"fields", JMap(<<<<"x", JStr("B")>>>>)>>>>),
      TypeOf("IMap", <<<<"fields", JList(<<JStr("Int"), JStr("B")>>)>>>>),
      TypeOf("IMap", <<<<"fields", JMap(<<<<"x", JStr("Int")>>>>)>>>>),
      TypeOf("Constant", <<<<"value", JInt(1)>>>>) }
        \cup {BitfieldOf(types) : types \in BitfieldLists}

\* the <<name, declaration>> pairs of the pool
Declarations ==
    ({"A"} \X (PlainValues \cup ReferringValues))
        \cup ({"B"} \X PlainValues)
        \cup ({"Int", "AOneOf"} \X {JStr("B"), IntMax5})

\* a mapping has every key once
DistinctKeys(pairs) ==
    \A i, j \in 1..Len(pairs) : pairs[i][1] = pairs[j][1] => i = j

TypesMappings == {m \in SeqsUpTo(Declarations, MaxTypes) : DistinctKeys(m)}

TypesDocument(types) == JMap(<<<<"types", JMap(types)>>>>)

Method(name, attrs) == JMap(<<<<name, attrs>>>>)

\* the declarations of a node
NodeValues ==
    { JNull,
      JMap(<<<<"description", JStr("d")>>>>),
      JMap(<<<<"extra", JInt(1)>>>>),
      JMap(<<<<"readonly", JBool(TRUE)>>>>),
      JMap(<<<<"property", JStr("B")>>>>),
      JMap(<<<<"property", JStr("C")>>>>),
      JMap(<<<<"property", JStr("B")>>, <<"readonly", JBool(TRUE)>>>>),
      JMap(<<<<"property", JStr("B")>>, <<"signal", JStr("sig")>>>>),
      JMap(<<<<"property", JStr("B")>>, <<"signal", JStr("get")>>>>),
      JMap(<<<<"property", JStr("B")>>, <<"methods", Method("get", JNull)>>>>),
      JMap(<<<<"methods", Method("m", JNull)>>>>),
      JMap(<<<<"methods", Method("ls", JNull)>>>>),
      JMap(<<<<"methods", JList(<<>>)>>>>),
      JMap(<<<<"methods",
              Method("m", JMap(<<<<"param", JStr("B")>>,
                                 <<"result", JStr("Int")>>,
                                 <<"flags", JList(<<JStr("getter")>>)>>,
                                 <<"description", JStr("d")>>>>))>>>>),
      JMap(<<<<"methods",
              Method("m", JMap(<<<<"flags", JList(<<JStr("bogus")>>)>>>>))>>>>),
      JMap(<<<<"methods", Method("m", JMap(<<<<"param", JStr("C")>>>>))>>>>),
      JMap(<<<<"methods", Method("m", JMap(<<<<"extra", JInt(1)>>>>))>>>>),
      JMap(<<<<"nodes", JMap(<<<<"c", JNull>>>>)>>>>),
      JMap(<<<<"nodes",
              JMap(<<<<"c", JMap(<<<<"property", JStr("C")>>>>)>>>>)>>>>),
      JMap(<<<<"nodes",
              JMap(<<<<"c", JMap(<<<<"methods", Method("ls", JNull)>>>>)>>>>)>>>>) }

\* the types the nodes refer to
NodeTypes == {<<>>, <<<<"B", IntMax5>>>>, <<<<"B", BlobMax4>>>>}

NodesDocument(types, node) ==
    JMap(<<<<"types", JMap(types)>>, <<"nodes", JMap(<<<<"n", node>>>>)>>>>)

\* documents that are malformed at the top
TopDocuments ==
    { JNull,
      JMap(<<>>),
      JMap(<<<<"types", JNull>>>>),
      JMap(<<<<"nodes", JList(<<>>)>>>>),
      JMap(<<<<"types", JMap(<<>>)>>, <<"extra", JInt(1)>>>>) }

Documents ==
    {TypesDocument(m) : m \in TypesMappings}
        \cup {NodesDocument(t, n) : t \in NodeTypes, n \in NodeValues}
        \cup TopDocuments

(***************************************************************************)
(* The loader as a state machine: a document, the objects made so far and  *)
(* the outcome of every call of load_raw on the document.                  *)
(***************************************************************************)
LoaderIdle == document = JNull /\ objects = shvBuiltins /\ loaded = <<>>

LoaderInit == document \in Documents /\ objects = shvBuiltins /\ loaded = <<>>

LoadRawDone(r) ==
    /\ objects' = r.heap
    /\ loaded' = Append(loaded, [exc |-> r.exc, tree |-> r.tree])
    /\ UNCHANGED document

\* load_raw(document)
LoadRaw == Len(loaded) < MaxLoads /\ LoadRawDone(load_raw(objects, document))

(***************************************************************************)
(* Claims about the loader.                                                *)
(***************************************************************************)
\* the i-th call of load_raw returned a tree
Loaded(i) == loaded[i].exc = NoError /\ loaded[i].tree # None

\* tree.types[name] of the tree the i-th call returned
TypeNamed(i, name) == NsGetItem(objects, loaded[i].tree[1].types, name).obj

\* A is declared as the bare string "B" before B is declared as b
ForwardDocument(b) == TypesDocument(<<<<"A", JStr("B")>>, <<"B", b>>>>)

\* in the tree of the i-th call A is an Alias whose type is the loaded B
AliasOfB(i) ==
    /\ Loaded(i)
    /\ objects[TypeNamed(i, "A")].kind = "Alias"
    /\ objects[TypeNamed(i, "B")].kind = "Int"
    /\ objects[TypeNamed(i, "A")].type = TypeNamed(i, "B")

\* C7 (as amended): a document whose types declare A as the bare string "B"
\* before declaring B as an Int with a maximum or a positive minimum loads
\* successfully, and in the result A is an Alias whose underlying type is
\* the loaded type B.
C7_ForwardAlias ==
    (\E b \in {IntMax5, IntMin1} : document = ForwardDocument(b))
        => \A i \in 1..Len(loaded) : AliasOfB(i)

\* the forward reference has been loaded, twice
C7_Witness ==
    /\ document = ForwardDocument(IntMax5)
    /\ Len(loaded) = MaxLoads
    /\ \A i \in 1..Len(loaded) : AliasOfB(i)

\* C7 as stated: with B declared as {"type": "Int"} the document loads and A
\* is an Alias of the loaded B.
C7_Original ==
    document = ForwardDocument(IntPlain)
        => \A i \in 1..Len(loaded) : AliasOfB(i)

\* C8: for every document that loads successfully, loading it twice yields
\* two Tree Roots that compare equal to each other.
C8_LoadTwiceEqual ==
    \A i, j \in 1..Len(loaded) :
        (i < j /\ Loaded(i) /\ Loaded(j))
            => TreeEq(objects, loaded[i].tree[1], loaded[j].tree[1])

\* the types mapping of the document declares a builtin type name
DeclaresBuiltin ==
    /\ IsMapping(document)
    /\ IsMapping(DictGet(document.pairs, "types", JMap(<<>>)))
    /\ \E i \in 1..Len(DictGet(document.pairs, "types", JMap(<<>>)).pairs) :
          IsBuiltinName(DictGet(document.pairs, "types", JMap(<<>>)).pairs[i][1])

\* C9: loading a document whose types mapping declares a builtin type name
\* fails with the structural error, wherever the declaration stands, and no
\* type collection is returned.
C9_BuiltinRedefinition ==
    DeclaresBuiltin
        => \A i \in 1..Len(loaded) :
              loaded[i].exc.kind = "SHVTreeValueError" /\ loaded[i].tree = None

\* C10: every failure of load_raw on a malformed document is reported as
\* the structural error SHVTreeValueError, the error that carries the
\* location path; no other error kind escapes the loader and no partial tree
\* is returned.
C10_StructuralErrorOnly ==
    \A i \in 1..Len(loaded) :
        \/ Loaded(i)
        \/ loaded[i].exc.kind = "SHVTreeValueError" /\ loaded[i].tree = None

\* the document that declares the one type A as an Int with the key unsigned
UnsignedDocument(attrs, unsigned) ==
    TypesDocument(<<<<"A", IntUnsigned(attrs, unsigned)>>>>)

\* the declarations of minimum, maximum and multipleOf that are valid
\* together with the unsigned value next to them
UnsignedCases ==
    { <<<<<<"minimum", JInt(0)>>, <<"maximum", JInt(5)>>>>, JBool(TRUE)>>,
      <<<<<<"maximum", JInt(5)>>>>, JBool(FALSE)>>,
      <<<<<<"maximum", JInt(5)>>>>, JStr("x")>>,
      <<<<<<"maximum", JInt(5)>>, <<"multipleOf", JBool(TRUE)>>>>,
        JBool(TRUE)>> }

\* load i returned a tree whose type A is an Int with the given flag
LoadedUnsigned(i, flag) ==
    /\ Loaded(i)
    /\ TypeNamed(i, "A") # 0
    /\ objects[TypeNamed(i, "A")].kind = "Int"
    /\ objects[TypeNamed(i, "A")].unsigned = flag

\* load i failed with the structural error at types.A.unsigned
RejectedUnsigned(i) ==
    /\ loaded[i].exc.kind = "SHVTreeValueError"
    /\ loaded[i].exc.location = <<"types", "A", "unsigned">>
    /\ loaded[i].tree = None

\* C27: an Int declaration with a boolean unsigned and a valid combination
\* of integer minimum, maximum and multipleOf loads into an Int type whose
\* unsigned flag is the declared value; a non-boolean unsigned is rejected
\* with the structural error at types.<name>.unsigned.
C27_UnsignedLoads ==
    \A c \in UnsignedCases :
        document = UnsignedDocument(c[1], c[2])
            => \A i \in 1..Len(loaded) :
                  IF IsBool(c[2]) THEN LoadedUnsigned(i, c[2].b)
                  ELSE RejectedUnsigned(i)

\* the one case of the pool C27 describes rightly in the source: the
\* declaration whose multipleOf is itself a boolean
BoolMultipleLoads ==
    document = UnsignedDocument(<<<<"maximum", JInt(5)>>,
                                  <<"multipleOf", JBool(TRUE)>>>>, JBool(TRUE))
        => \A i \in 1..Len(loaded) : LoadedUnsigned(i, TRUE)

\* the node n whose only child c carries the declaration given
NestedDocument(child) ==
    NodesDocument(<<>>, JMap(<<<<"nodes", JMap(<<<<"c", child>>>>)>>>>))

\* the declarations of the child c that cannot be loaded: an unknown type
\* as the property
BrokenChildren == {JMap(<<<<"property", JStr("C")>>>>)}

\* the path is that of the chain of nodes from nodes through n to c
ThroughAncestors(location) ==
    /\ Len(location) >= 4
    /\ SubSeq(location, 1, 2) = <<"nodes", "n">>
    /\ \E k \in 3..Len(location) : location[k] = "c"

\* C28: when loading fails inside a node declaration nested in another
\* node, the path of the error runs through the whole chain of ancestor
\* nodes starting at nodes: for the failing child c of n it leads through n.
C28_NestedErrorPath ==
    \A child \in BrokenChildren :
        document = NestedDocument(child)
            => \A i \in 1..Len(loaded) :
                  /\ loaded[i].exc.kind = "SHVTreeValueError"
                  /\ ThroughAncestors(loaded[i].exc.location)

\* the document that declares the one type A as a Bitfield of the types
BitfieldDocument(types) == TypesDocument(<<<<"A", BitfieldOf(types)>>>>)

\* the type named is a component of the Bitfield that starts at the bit
StartsAt(h, items, name, bit) ==
    \E m \in 1..Len(BfTypes(h, items)) :
        /\ BfTypes(h, items)[m].tp = BuiltinByName(name)
        /\ BfTypes(h, items)[m].pos = bit

\* every listed type starts at its assigned bit, and every component of
\* the Bitfield is a listed type at its assigned bit: all other bits are
\* Null holes
PlacedAs(h, items, assigned) ==
    /\ \A k \in 1..Len(assigned) :
          StartsAt(h, items, assigned[k][1], assigned[k][2])
    /\ \A m \in 1..Len(BfTypes(h, items)) :
          \E k \in 1..Len(assigned) :
              /\ BfTypes(h, items)[m].tp = BuiltinByName(assigned[k][1])
              /\ BfTypes(h, items)[m].pos = assigned[k][2]

\* C26: for a Bitfield declaration with a types list read enum-like, a
\* successful load yields a Bitfield in which every listed type is a
\* component starting at its assigned bit and all other bits are Null
\* holes; if a listed type cannot be placed there the load fails.
C26_BitfieldPlacement ==
    \A types \in BitfieldLists :
        document = BitfieldDocument(types)
            => \A i \in 1..Len(loaded) :
                  Loaded(i)
                      => /\ objects[TypeNamed(i, "A")].kind = "Bitfield"
                         /\ PlacedAs(objects, objects[TypeNamed(i, "A")].items,
                                     _load_enumlike(<<>>, JList(types)).pairs)

\* the declaration of the tests loads as the tests expect:
\* Bool at bit 0, UInt8 at bit 3, Bool at bit 12
UnknownbitLoads ==
    document = BitfieldDocument(<<JStr("Bool"), JInt(2), JStr("UInt8"),
                                  JMap(<<<<"Bool", JInt(12)>>>>)>>)
        => \A i \in 1..Len(loaded) :
              /\ Loaded(i)
              /\ objects[TypeNamed(i, "A")].items
                    = <<shvBool, shvNull, shvNull, shvUInt8, shvNull, shvBool>>

(***************************************************************************)
(* load_types on declarations that refer to each other in every order      *)
(* (load.py).                                                              *)
(***************************************************************************)
\* the declarations of a type named self next to a type named other:
\* references to the other type, to itself, to builtins and to no type
RefValues(self, other) ==
    { JStr(other),
      JStr(self),
      JStr("Int"),
      JStr("C"),
      JList(<<JStr("Int"), JStr(other)>>),
      JList(<<JStr(self), JNull>>),
      TypeOf("List", <<<<"allowed", JStr(other)>>>>),
      TypeOf("Tuple", <<<<"items", JList(<<JStr("Int"), JStr(other)>>)>>>>),
      TypeOf("Tuple", <<<<"items", JList(<<JStr(self)>>)>>>>),
      TypeOf("Map", <<<<"fields", JMap(<<<<"x", JStr(other)>>>>)>>>>),
      TypeOf("IMap", <<<<"fields", JList(<<JStr("Int"), JStr(other)>>)>>>>),
      TypeOf("Bitfield", <<<<"types", JList(<<JStr("Bool"), JStr(other)>>)>>>>),
      IntMax5,
      EnumAB }

RefDeclarations ==
    ({"A"} \X RefValues("A", "B")) \cup ({"B"} \X RefValues("B", "A"))

\* the types mappings: the declarations of A and B in both orders
RefDocuments ==
    {JMap(m) : m \in {d \in SeqsUpTo(RefDeclarations, MaxTypes) :
                          DistinctKeys(d)}}

RefInit == document \in RefDocuments /\ objects = shvBuiltins /\ loaded = <<>>

LoadTypesDone(st) ==
    /\ objects' = st.heap
    /\ loaded' = Append(loaded,
                        [exc |-> st.exc,
                         types |-> IF Failed(st) THEN None ELSE Some(st.types)])
    /\ UNCHANGED document

\* load_types(document)
LoadTypes ==
    Len(loaded) < MaxLoads /\ LoadTypesDone(load_types(objects, document))

\* the names a declaration refers to
RefNames(v) ==
    IF IsStr(v) THEN {v}
    ELSE IF v.j = "list" THEN {v.items[k] : k \in 1..Len(v.items)}
    ELSE IF ~IsMapping(v) THEN {}
    ELSE LET a == DictGet(v.pairs, "allowed", JNull)
             i == DictGet(v.pairs, "items", JList(<<>>))
             t == DictGet(v.pairs, "types", JList(<<>>))
             f == DictGet(v.pairs, "fields", JList(<<>>))
         IN (IF IsNone(a) THEN {} ELSE {a})
                \cup {i.items[k] : k \in 1..Len(i.items)}
                \cup {t.items[k] : k \in 1..Len(t.items)}
                \cup (IF IsMapping(f) THEN {f.pairs[k][2] : k \in 1..Len(f.pairs)}
                      ELSE {f.items[k] : k \in 1..Len(f.items)})

\* the types an object of the heap refers to
RefObjects(o) ==
    CASE o.kind = "Alias" -> {o.type}
      [] o.kind = "OneOf" -> {o.types[k] : k \in 1..Len(o.types)}
      [] o.kind = "List" -> {o.allowed}
      [] o.kind \in {"Tuple", "Bitfield"} -> {o.items[k] : k \in 1..Len(o.items)}
      [] o.kind \in {"Map", "IMap"} -> {o.pairs[k][2] : k \in 1..Len(o.pairs)}
      [] OTHER -> {}

\* the object a name stands for in the collection: the builtin of that
\* name, or the object stored under it
Resolved(h, types, v) ==
    IF IsNone(v) THEN shvNull
    ELSE IF IsBuiltinName(v.s) THEN BuiltinByName(v.s)
    ELSE NsGetItem(h, types, v.s).obj

\* the name is the name of exactly one object of the collection
PresentOnce(h, types, name) ==
    Cardinality({k \in 1..Len(types) : h[types[k]].name = name}) = 1

\* the object stored under the declared name refers to the objects its
\* declaration names, and to no other (but for the Null holes of a Bitfield)
RefsResolved(h, types, name, v) ==
    LET o == h[NsGetItem(h, types, name).obj]
        holes == IF o.kind = "Bitfield" THEN {shvNull} ELSE {}
    IN RefObjects(o) \ holes = {Resolved(h, types, x) : x \in RefNames(v)} \ holes

\* C25: after a successful load_types, for any order of the declarations
\* (backward, forward, self or mutual references), every type referenced
\* by name is a builtin or the very object stored under that name in the
\* returned collection, and every declared name is present exactly once.
C25_ReferencesResolved ==
    \A i \in 1..Len(loaded) :
        loaded[i].exc = NoError
            => \A k \in 1..Len(document.pairs) :
                  /\ PresentOnce(objects, loaded[i].types[1],
                                 document.pairs[k][1])
                  /\ RefsResolved(objects, loaded[i].types[1],
                                  document.pairs[k][1], document.pairs[k][2])

\* B, an Alias of A, is declared before A, a Tuple of Int and B
MutualDocument ==
    JMap(<<<<"B", JStr("A")>>,
           <<"A", TypeOf("Tuple",
                         <<<<"items", JList(<<JStr("Int"), JStr("B")>>)>>>>)>>>>)

\* the forward and mutual references have been loaded: B is the Alias of
\* the stored A, whose second item is the stored B
C25_Witness ==
    /\ document = MutualDocument
    /\ Len(loaded) = MaxLoads
    /\ \A i \in 1..Len(loaded) :
          /\ loaded[i].exc = NoError
          /\ Len(loaded[i].types[1]) = 2
          /\ objects[Resolved(objects, loaded[i].types[1], JStr("B"))].type
                = Resolved(objects, loaded[i].types[1], JStr("A"))
          /\ objects[Resolved(objects, loaded[i].types[1], JStr("A"))].items[2]
                = Resolved(objects, loaded[i].types[1], JStr("B"))

(***************************************************************************)
(* A node and its methods (node.py, method.py): make_property on a node    *)
(* whose methods are added and deleted between the calls.                  *)
(***************************************************************************)
\* the names of the methods added to the node by hand
MethodNames == {"get", "set", "chng", "sig", "m"}

\* the dtype, readonly and signal arguments given to make_property; the
\* signal is None, a bool or a string
PropertyTypes == {shvInt, shvString}
PropertySignals ==
    {JNull, JBool(TRUE), JBool(FALSE), JStr(""), JStr("sig"), JStr("get")}

IdleNode == [op |-> "init", calls |-> 0, before |-> <<>>, dtype |-> 0,
             readonly |-> FALSE, signal |-> JNull, path |-> <<>>,
             name |-> "", exc |-> NoError, ret |-> <<>>]

\* SHVNode("n")
PropertyInit ==
    /\ curnode = SHVNode("n", <<>>, <<>>, "")
    /\ ndlast = IdleNode

\* the node after a call on its methods, and the record of the call
MethodsCalled(op, r, dtype, readonly, signal, name) ==
    /\ curnode' = [curnode EXCEPT !.methods = r.methods]
    /\ ndlast' = [IdleNode EXCEPT !.op = op, !.calls = ndlast.calls + 1,
                                  !.before = curnode.methods, !.dtype = dtype,
                                  !.readonly = readonly, !.signal = signal,
                                  !.name = name, !.exc = r.exc]

\* node.make_property(dtype, readonly, signal)
MakeProperty ==
    /\ ndlast.calls < MaxCalls
    /\ \E dtype \in PropertyTypes, readonly \in BOOLEAN,
          signal \in PropertySignals :
            MethodsCalled("make_property",
                          make_property(curnode.methods, dtype, readonly, signal),
                          dtype, readonly, signal, "")

\* node.methods.add(SHVMethod(name))
MethodsAddNew ==
    /\ ndlast.calls < MaxCalls
    /\ \E name \in MethodNames :
          MethodsCalled("add",
                        MethodsAdd([exc |-> NoError, methods |-> curnode.methods],
                                   SHVMethod(name, shvNull, shvNull, {}, "cmd",
                                             "")),
                        0, FALSE, JNull, name)

\* del node.methods[name]: the methods are told apart by their names here,
\* two methods of a node never compare equal
MethodsDeleted(methods, name) ==
    IF \E i \in 1..Len(methods) : methods[i].name = name
    THEN [exc |-> NoError,
          methods |-> SelectSeq(methods, LAMBDA m : m.name # name)]
    ELSE [exc |-> [kind |-> "KeyError", location |-> <<>>], methods |-> methods]

MethodsDelItem ==
    /\ ndlast.calls < MaxCalls
    /\ \E name \in MethodNames :
          MethodsCalled("del", MethodsDeleted(curnode.methods, name),
                        0, FALSE, JNull, name)

(***************************************************************************)
(* Claims about make_property.                                             *)
(***************************************************************************)
MethodNamed(methods, name) == \E i \in 1..Len(methods) : methods[i].name = name

\* the name of the signal make_property would add
SignalName(signal) == IF IsStr(signal) THEN signal.s ELSE "chng"

\* make_property adds a signal for these arguments
Signalled(readonly, signal) == Truthy(signal) \/ (IsNone(signal) /\ ~readonly)

\* the node had none of the get, set and chng methods before the call
NoPropertyMethods ==
    \A name \in {"get", "set", "chng"} : ~MethodNamed(ndlast.before, name)

\* the name of the signal is not get or set, nor the name of a method of the
\* node, nor one of the standard methods
SignalNameFree ==
    Signalled(ndlast.readonly, ndlast.signal)
        => /\ SignalName(ndlast.signal) \notin {"get", "set", "ls", "dir", "lsmod"}
           /\ ~MethodNamed(ndlast.before, SignalName(ndlast.signal))

\* the methods the call appended to those the node had
AddedMethods == SubSeq(curnode.methods, Len(ndlast.before) + 1, Len(curnode.methods))

IsGetter(m, dtype) ==
    m.name = "get" /\ m.flags = {"GETTER"} /\ m.result = dtype

IsSetter(m, dtype) ==
    /\ m.name = "set" /\ m.flags = {"SETTER"}
    /\ m.param = dtype /\ m.result = shvNull

IsSignal(m, name, dtype) ==
    m.name = name /\ m.flags = {"NOT_CALLABLE"} /\ m.result = dtype

\* the call succeeded and added exactly the methods its arguments ask for
AddedExactly ==
    /\ ndlast.exc = NoError
    /\ SubSeq(curnode.methods, 1, Len(ndlast.before)) = ndlast.before
    /\ Len(AddedMethods) = 1 + (IF ndlast.readonly THEN 0 ELSE 1)
                             + (IF Signalled(ndlast.readonly, ndlast.signal)
                                THEN 1 ELSE 0)
    /\ IsGetter(AddedMethods[1], ndlast.dtype)
    /\ ~ndlast.readonly => IsSetter(AddedMethods[2], ndlast.dtype)
    /\ Signalled(ndlast.readonly, ndlast.signal)
          => IsSignal(AddedMethods[Len(AddedMethods)],
                      SignalName(ndlast.signal), ndlast.dtype)

\* C11 (as amended): make_property(T, readonly, signal) on a node that has
\* no property methods, with a signal name that is free, adds exactly a get
\* method (GETTER, result T), a set method (SETTER, param T, result Null)
\* iff readonly is false, and one signal (NOT_CALLABLE, result T, named chng
\* or the signal string) iff signal is truthy or is None with readonly false.
C11_MakePropertyAdds ==
    (ndlast.op = "make_property" /\ NoPropertyMethods /\ SignalNameFree)
        => AddedExactly

\* readonly=True with signal=True has given exactly get and chng
C11_Witness ==
    /\ ndlast.op = "make_property"
    /\ ndlast.before = <<>>
    /\ ndlast.readonly /\ ndlast.signal = JBool(TRUE)
    /\ Len(curnode.methods) = 2
    /\ IsGetter(curnode.methods[1], ndlast.dtype)
    /\ IsSignal(curnode.methods[2], "chng", ndlast.dtype)

\* C11 as stated: for every signal argument, the string included.
C11_Original ==
    (ndlast.op = "make_property" /\ NoPropertyMethods) => AddedExactly

\* C12: make_property on a node that already has any of the get, set or
\* change-signal methods fails with SHVPropError, whatever readonly and
\* signal are.
C12_SecondCallRaises ==
    (ndlast.op = "make_property" /\ ~NoPropertyMethods)
        => ndlast.exc.kind = "SHVPropError"

(***************************************************************************)
(* A tree of nodes (node.py, shvtree.py): get_node, iteration, get_type.   *)
(* A name or a path of these trees is a string spelled out as the sequence *)
(* of its characters, "/" among them, so that joining and splitting are    *)
(* what they are in the code.                                              *)
(***************************************************************************)
Slash == "/"

\* the names given to the nodes: a, b and a/b
TreeNames == {<<"a">>, <<"b">>, <<"a", Slash, "b">>}

\* f"{node_name}/{sname}"
JoinPath(node_name, sname) == node_name \o <<Slash>> \o sname

\* path.split("/") of a non-empty string: the segments between the slashes
RECURSIVE SplitFrom(_, _, _, _)
SplitFrom(path, k, cur, out) ==
    IF k > Len(path) THEN Append(out, cur)
    ELSE IF path[k] = Slash THEN SplitFrom(path, k + 1, <<>>, Append(out, cur))
    ELSE SplitFrom(path, k + 1, Append(cur, path[k]), out)

Split(path) == SplitFrom(path, 1, <<>>, <<>>)

\* name in nodes, nodes[name] on a NamedSet of nodes: the first of that name
NodesHas(nodes, name) == \E i \in 1..Len(nodes) : nodes[i].name = name

NodesGet(nodes, name) ==
    nodes[CHOOSE i \in 1..Len(nodes) :
            /\ nodes[i].name = name
            /\ \A j \in 1..(i - 1) : nodes[j].name # name]

\* the loop of get_node over the segments; None is <<>>, a node is <<node>>
RECURSIVE GetNodeFrom(_, _, _, _)
GetNodeFrom(found, nodes, segments, k) ==
    IF k > Len(segments) THEN found
    ELSE IF ~NodesHas(nodes, segments[k]) THEN None
    ELSE GetNodeFrom(Some(NodesGet(nodes, segments[k])),
                     NodesGet(nodes, segments[k]).nodes, segments, k + 1)

\* SHVNode.get_node(path)
get_node(self, path) ==
    IF path = <<>> THEN Some(self)
    ELSE GetNodeFrom(None, self.nodes, Split(path), 1)

\* SHVNode.__iter__: the <<path, node>> pairs in the order they are yielded.
\* self.nodes.items() walks the names and looks every one up again.
RECURSIVE NodeIter(_)
RECURSIVE NodeIterFrom(_, _, _)
RECURSIVE Prefixed(_, _, _)

\* the pairs of a child, their paths put under the name of the child
Prefixed(node_name, pairs, k) ==
    IF k > Len(pairs) THEN <<>>
    ELSE <<<<JoinPath(node_name, pairs[k][1]), pairs[k][2]>>>>
         \o Prefixed(node_name, pairs, k + 1)

NodeIterFrom(nodes, names, k) ==
    IF k > Len(names) THEN <<>>
    ELSE <<<<names[k], NodesGet(nodes, names[k])>>>>
         \o Prefixed(names[k], NodeIter(NodesGet(nodes, names[k])), 1)
         \o NodeIterFrom(nodes, names, k + 1)

NodeIter(self) ==
    NodeIterFrom(self.nodes, [i \in 1..Len(self.nodes) |-> self.nodes[i].name], 1)

\* SHVTree.get_type(name) on the heap h
TreeGetType(h, self, name) ==
    IF IsBuiltinName(name) THEN [exc |-> NoExc, obj |-> BuiltinByName(name)]
    ELSE NsGetItem(h, self.types, name)

\* the nodes of a pool, nested to a depth; NamedSet(*values) takes them as
\* they come
RECURSIVE NodePool(_)
NodePool(depth) ==
    IF depth = 0 THEN {}
    ELSE {SHVNode(name, nodes, <<>>, "") :
            name \in TreeNames,
            nodes \in SeqsUpTo(NodePool(depth - 1), MaxChildren)}

\* the custom types of a tree: an Int named as the builtin Int and a type T
TreeHeap ==
    shvBuiltins \o <<SHVTypeInt("Int", Some(0), Some(5), None, None),
                     SHVTypeInt("T", Some(0), Some(9), None, None)>>

TreeTypes == {t \in SeqsUpTo({Len(shvBuiltins) + 1, Len(shvBuiltins) + 2}, 2) :
                \A i, j \in 1..Len(t) : t[i] = t[j] => i = j}

\* SHVTree(nodes=..., types=...)
TreeRoot(nodes, types) ==
    [name |-> <<>>, nodes |-> nodes, methods |-> <<>>, description |-> "",
     types |-> types]

TreePool ==
    {TreeRoot(nodes, <<>>) : nodes \in SeqsUpTo(NodePool(MaxDepth), MaxChildren)}
        \cup {TreeRoot(<<>>, types) : types \in TreeTypes}

\* the paths asked for: every string of at most MaxPath characters
TreePaths == SeqsUpTo({"a", "b", Slash}, MaxPath)

\* the names asked for
TypeNames == {"Int", "String", "T", "missing"}

TreeInit ==
    /\ curnode \in TreePool
    /\ ndlast = IdleNode
    /\ objects = TreeHeap

\* node.get_node(path)
GetNode ==
    /\ \E path \in TreePaths :
          ndlast' = [IdleNode EXCEPT !.op = "get_node", !.path = path,
                                     !.ret = get_node(curnode, path)]
    /\ UNCHANGED <<curnode, objects>>

\* list(node)
Iterate ==
    /\ ndlast' = [IdleNode EXCEPT !.op = "iter", !.ret = NodeIter(curnode)]
    /\ UNCHANGED <<curnode, objects>>

GotType(name, r) ==
    ndlast' = [IdleNode EXCEPT !.op = "get_type", !.name = name,
                               !.exc = [kind |-> r.exc, location |-> <<>>],
                               !.ret = IF r.exc = NoExc THEN Some(r.obj)
                                       ELSE None]

\* node.get_type(name)
GetType ==
    /\ \E name \in TypeNames : GotType(name, TreeGetType(objects, curnode, name))
    /\ UNCHANGED <<curnode, objects>>

(***************************************************************************)
(* Claims about trees.                                                     *)
(***************************************************************************)
\* every descendant once, by its place among its siblings, a parent before
\* its children, with the names on the way to it joined by "/"
RECURSIVE Descendants(_, _, _)
Descendants(nodes, prefix, k) ==
    IF k > Len(nodes) THEN <<>>
    ELSE <<<<prefix \o nodes[k].name, nodes[k]>>>>
         \o Descendants(nodes[k].nodes, prefix \o nodes[k].name \o <<Slash>>, 1)
         \o Descendants(nodes, prefix, k + 1)

\* C13: get_node(path) returns node n exactly when path is empty and n is
\* the receiver, or (path, n) is yielded by the iteration of the receiver;
\* the iteration yields every descendant exactly once with its "/"-joined
\* path, each parent before its children; for every other path get_node
\* returns None.
C13_GetNodeMatchesIteration ==
    /\ ndlast.op = "iter" => ndlast.ret = Descendants(curnode.nodes, <<>>, 1)
    /\ ndlast.op = "get_node" =>
          /\ ndlast.path = <<>> => ndlast.ret = Some(curnode)
          /\ \A k \in 1..Len(NodeIter(curnode)) :
                NodeIter(curnode)[k][1] = ndlast.path
                    => ndlast.ret = Some(NodeIter(curnode)[k][2])
          /\ (/\ ndlast.path # <<>>
              /\ \A k \in 1..Len(NodeIter(curnode)) :
                    NodeIter(curnode)[k][1] # ndlast.path)
                => ndlast.ret = None

\* C14: get_type(name) returns the builtin of that name if there is one,
\* otherwise the custom type of that name, and None, without raising, when
\* the name is neither.
C14_GetTypeOrNone ==
    ndlast.op = "get_type" =>
        /\ ndlast.exc = NoError
        /\ ndlast.ret =
              IF IsBuiltinName(ndlast.name)
              THEN Some(BuiltinByName(ndlast.name))
              ELSE IF \E i \in 1..Len(curnode.types) :
                         objects[curnode.types[i]].name = ndlast.name
              THEN Some(CHOOSE t \in {curnode.types[i] : i \in 1..Len(curnode.types)} :
                            objects[t].name = ndlast.name)
              ELSE None

(***************************************************************************)
(* Sizes and validation of types (types.py).  The bounds of an integer     *)
(* type reach 2^64 and the size rule is defined up to 17 bytes, so the     *)
(* integers of this part are of arbitrary size: a sign and a magnitude,    *)
(* the magnitude in binary, most significant bit first, zero being the     *)
(* empty magnitude.  The types of this part are records that hold their    *)
(* component types themselves.                                             *)
(***************************************************************************)
RECURSIVE Bits(_)
Bits(n) == IF n <= 0 THEN <<>> ELSE Append(Bits(n \div 2), n % 2)

RECURSIVE BitsValue(_)
BitsValue(mag) ==
    IF mag = <<>> THEN 0
    ELSE 2 * BitsValue(SubSeq(mag, 1, Len(mag) - 1)) + mag[Len(mag)]

Big(n) == [neg |-> n < 0, mag |-> Bits(IF n < 0 THEN 0 - n ELSE n)]

\* 2^k - 1 and 2^k
BigPow2m1(k) == [neg |-> FALSE, mag |-> [i \in 1..k |-> 1]]
BigPow2(k) == [neg |-> FALSE, mag |-> [i \in 1..(k + 1) |-> IF i = 1 THEN 1 ELSE 0]]

\* -x
BigNeg(x) == IF x.mag = <<>> THEN x ELSE [x EXCEPT !.neg = ~x.neg]

\* a < b of two magnitudes
MagLess(a, b) ==
    \/ Len(a) < Len(b)
    \/ /\ Len(a) = Len(b)
       /\ \E i \in 1..Len(a) :
             /\ a[i] < b[i]
             /\ \A j \in 1..(i - 1) : a[j] = b[j]

\* x < 0, x == 0, x < 64
BigIsNeg(x) == x.neg
BigIsZero(x) == x.mag = <<>>
BigLess64(x) == x.neg \/ Len(x.mag) <= 6

\* max(abs(a), abs(b)).bit_length()
MaxAbsBitLength(a, b) == Len(IF MagLess(a.mag, b.mag) THEN b.mag ELSE a.mag)

NoObject == [kind |-> "None"]
Made(obj) == [exc |-> NoExc, obj |-> obj]
NotMade(exc) == [exc |-> exc, obj |-> NoObject]

\* SHVTypeInt.__init__ over integers of arbitrary size
IntInit(name, minimum, maximum, multiple_of, unsigned) ==
    LET uns == IF unsigned # None THEN unsigned[1]
               ELSE minimum # None /\ ~BigIsNeg(minimum[1])
    IN IF uns /\ (\/ minimum # None /\ BigIsNeg(minimum[1])
                  \/ maximum # None /\ BigIsNeg(maximum[1]))
       THEN NotMade("ValueError")
       ELSE Made([kind |-> "Int", name |-> name, minimum |-> minimum,
                  maximum |-> maximum, multiple_of |-> multiple_of,
                  unsigned |-> uns])

\* SHVTypeInt.__new__ followed by __init__
IntNew(name, minimum, maximum, multiple_of, unsigned) ==
    IF maximum = None /\ multiple_of = None /\ minimum = None /\ name # "Int"
    THEN NotMade("ValueError")
    ELSE IF /\ maximum = None /\ multiple_of = None /\ minimum # None
            /\ BigIsZero(minimum[1]) /\ unsigned # Some(FALSE) /\ name # "UInt"
    THEN NotMade("ValueError")
    ELSE IntInit(name, minimum, maximum, multiple_of, unsigned)

\* the tiers of SHVTypeInt.chainpack_bytes
IntTier(bits) ==
    IF bits <= 7 THEN Some(2)
    ELSE IF bits <= 14 THEN Some(3)
    ELSE IF bits <= 21 THEN Some(4)
    ELSE IF bits <= 28 THEN Some(5)
    ELSE LET bts == (bits \div 8) + 1
         IN IF bts <= 17 THEN Some(2 + bts) ELSE None

\* the bits of the largest magnitude, the sign bit added
IntBitsFull(t) ==
    MaxAbsBitLength(t.minimum[1], t.maximum[1]) + (IF t.unsigned THEN 0 ELSE 1)

\* the bits of SHVTypeInt.chainpack_bytes
IntBits(t) ==
    (MaxAbsBitLength(t.minimum[1], t.maximum[1]) - 1) + (IF t.unsigned THEN 0 ELSE 1)

\* SHVTypeInt.chainpack_bytes
IntChainpackBytes(t) ==
    IF t.minimum # None /\ t.maximum # None
    THEN IF ~BigIsNeg(t.minimum[1]) /\ BigLess64(t.maximum[1])
         THEN Some(1)
         ELSE IntTier(IntBits(t))
    ELSE None

\* what a call gives: the value it returns or the exception it raises
Returned(value) == [exc |-> NoExc, ret |-> value]
Raised(exc) == [exc |-> exc, ret |-> None]

\* None stays None, an integer becomes an integer of arbitrary size
BigOpt(o) == IF o = None THEN None ELSE Some(Big(o[1]))

\* SHVTypeString.length, SHVTypeBlob.length
length(t) == IntNew(t.name \o "-length", BigOpt(t.min_length), BigOpt(t.max_length), None, None)

\* the end of SHVTypeString.chainpack_bytes and SHVTypeBlob.chainpack_bytes
LengthBytes(len, max_length) ==
    IF len # None THEN Returned(Some(1 + len[1] + max_length[1]))
    ELSE Returned(None)

\* SHVTypeString.chainpack_bytes, SHVTypeBlob.chainpack_bytes
StringChainpackBytes(t) ==
    IF length(t).exc # NoExc THEN Raised(length(t).exc)
    ELSE LengthBytes(IntChainpackBytes(length(t).obj), t.max_length)

\* a decimal.Decimal: sign, digits and exponent as as_tuple() gives them; the
\* exponent is an int, or the str "F" for an infinity
Decimal(sign, digits, exponent) == [sign |-> sign, digits |-> digits, exponent |-> exponent]

SHVTypeDecimal(name, minimum, maximum) ==
    [kind |-> "Decimal", name |-> name, minimum |-> minimum, maximum |-> maximum]

\* SHVTypeDecimal.mantisa: both bounds are left None
mantisa(t) == IntNew(t.name \o "-mantisa", None, None, None, None)

\* as_tuple().exponent of a bound, None when it is not an int
ExponentOf(bound) ==
    IF bound = None THEN None
    ELSE IF IsInt(bound[1].exponent)
    THEN Some(Big(IntOf(bound[1].exponent)))
    ELSE None

\* SHVTypeDecimal.exponent
exponent(t) == IntNew(t.name \o "-exponent", ExponentOf(t.minimum), ExponentOf(t.maximum), None, None)

\* the end of SHVTypeDecimal.chainpack_bytes
DecimalBytes(m, e) ==
    IF m # None /\ e # None THEN Returned(Some(1 + m[1] + e[1]))
    ELSE Returned(None)

\* SHVTypeDecimal.chainpack_bytes
DecimalChainpackBytes(t) ==
    IF mantisa(t).exc # NoExc THEN Raised(mantisa(t).exc)
    ELSE IF exponent(t).exc # NoExc THEN Raised(exponent(t).exc)
    ELSE DecimalBytes(IntChainpackBytes(mantisa(t).obj), IntChainpackBytes(exponent(t).obj))

\* SHVTypeBitfield.bitsize; the items are builtin types
RECURSIVE BitsizeFrom(_, _, _)
BitsizeFrom(h, items, k) ==
    IF k > Len(items) THEN 0
    ELSE SpanOr0(h, items[k]) + BitsizeFrom(h, items, k + 1)

bitsize(t) == BitsizeFrom(shvBuiltins, t.items, 1)

\* SHVTypeBase.chainpack_bytes, which SHVTypeBitfield inherits
BaseChainpackBytes(t) == Returned(None)

\* chainpack_bytes of a type; a Tuple adds up the sizes of its fields
RECURSIVE chainpack_bytes(_)
RECURSIVE TupleBytesFrom(_, _, _)
TupleBytesFrom(items, k, res) ==
    IF k > Len(items) THEN Returned(Some(res))
    ELSE LET tpsize == chainpack_bytes(items[k])
         IN IF tpsize.exc # NoExc THEN tpsize
            ELSE IF tpsize.ret = None THEN Returned(None)
            ELSE TupleBytesFrom(items, k + 1, res + tpsize.ret[1])

chainpack_bytes(t) ==
    CASE t.kind = "Int" -> Returned(IntChainpackBytes(t))
      [] t.kind \in {"String", "Blob"} -> StringChainpackBytes(t)
      [] t.kind = "Decimal" -> DecimalChainpackBytes(t)
      [] t.kind \in {"Null", "Bool"} -> Returned(Some(1))
      [] t.kind = "Tuple" -> TupleBytesFrom(t.items, 1, 2)
      [] OTHER -> BaseChainpackBytes(t)

(***************************************************************************)
(* Validation of values.  A value is a plain value as a document holds    *)
(* them; a str is the sequence of its characters here.                     *)
(***************************************************************************)
\* the items enumerate(value) gives
ItemsOf(value) ==
    IF value.j = "list" THEN value.items
    ELSE [i \in 1..Len(value.s) |-> JStr(<<value.s[i]>>)]

\* a <= b of integers of arbitrary size
BigLE(a, b) ==
    IF a.neg /\ ~b.neg THEN TRUE
    ELSE IF ~a.neg /\ b.neg THEN FALSE
    ELSE IF a.neg THEN ~MagLess(a.mag, b.mag)
    ELSE ~MagLess(b.mag, a.mag)

\* SHVTypeInt.validate: a bool is an int
BigIntValidate(t, value) ==
    /\ IsInt(value)
    /\ (t.minimum = None \/ BigLE(t.minimum[1], Big(IntOf(value))))
    /\ (t.maximum = None \/ BigLE(Big(IntOf(value)), t.maximum[1]))
    /\ (t.multiple_of = None \/ IntOf(value) % t.multiple_of[1] = 0)

\* SHVTypeString.validate, the pattern left aside
StringValidate(t, value) ==
    /\ IsStr(value)
    /\ (t.min_length = None \/ Len(value.s) >= t.min_length[1])
    /\ (t.max_length = None \/ Len(value.s) <= t.max_length[1])

\* validate of a type; SHVTypeTuple.validate checks item i against field i
RECURSIVE validate(_, _)
validate(t, value) ==
    CASE t.kind = "Null" -> IsNone(value)
      [] t.kind = "Bool" -> IsBool(value)
      [] t.kind = "Int" -> BigIntValidate(t, value)
      [] t.kind = "String" -> StringValidate(t, value)
      [] t.kind = "Tuple" ->
            /\ IsSequence(value)
            /\ \A i \in 1..Len(ItemsOf(value)) :
                  /\ i <= Len(t.items)
                  /\ validate(t.items[i], ItemsOf(value)[i])
      [] OTHER -> FALSE

(***************************************************************************)
(* The type under test.  The integer bounds are the two extreme values of  *)
(* each chosen bit length, of either sign, so that every tier of the size  *)
(* rule is met on both of its sides.                                       *)
(***************************************************************************)
IntBitLengths ==
    {k \in 0..MaxIntBits : k \in {0, 1, 6, 7, 8, 14, 15, 16, 21, 22, 28, 29, 32, 64}
                           \/ k >= MaxIntBits - 1}

IntBounds ==
    LET pos == {BigPow2m1(k) : k \in IntBitLengths}
                 \cup {BigPow2(k - 1) : k \in IntBitLengths \ {0}}
    IN pos \cup {BigNeg(x) : x \in pos}

OptionalOf(S) == {None} \cup {Some(x) : x \in S}

\* the SHVTypeInt objects that can be constructed
IntPool ==
    LET made == {IntNew("x", mn, mx, None, u) :
                    mn \in OptionalOf(IntBounds), mx \in OptionalOf(IntBounds),
                    u \in OptionalOf(BOOLEAN)}
                  \cup {IntNew("x", None, None, Some(2), u) : u \in OptionalOf(BOOLEAN)}
    IN {m.obj : m \in {n \in made : n.exc = NoExc}}

\* shvInt .. shvUInt64 of types_builtins.py
BuiltinInt(name) ==
    CASE name = "Int" -> IntNew("Int", None, None, None, None).obj
      [] name = "Int8" -> IntNew("Int8", Some(BigNeg(BigPow2(7))), Some(BigPow2m1(7)), None, None).obj
      [] name = "Int16" -> IntNew("Int16", Some(BigNeg(BigPow2(15))), Some(BigPow2m1(15)), None, None).obj
      [] name = "Int32" -> IntNew("Int32", Some(BigNeg(BigPow2(31))), Some(BigPow2m1(31)), None, None).obj
      [] name = "Int64" -> IntNew("Int64", Some(BigNeg(BigPow2(63))), Some(BigPow2m1(63)), None, None).obj
      [] name = "UInt" -> IntNew("UInt", Some(Big(0)), None, None, None).obj
      [] name = "UInt8" -> IntNew("UInt8", Some(Big(0)), Some(BigPow2m1(8)), None, None).obj
      [] name = "UInt16" -> IntNew("UInt16", Some(Big(0)), Some(BigPow2m1(16)), None, None).obj
      [] name = "UInt32" -> IntNew("UInt32", Some(Big(0)), Some(BigPow2m1(32)), None, None).obj
      [] name = "UInt64" -> IntNew("UInt64", Some(Big(0)), Some(BigPow2m1(64)), None, None).obj

BuiltinIntNames ==
    {"Int", "Int8", "Int16", "Int32", "Int64", "UInt", "UInt8", "UInt16", "UInt32", "UInt64"}

StringLengths == OptionalOf({0, 2, 63, 64, MaxStringLength})

\* the SHVTypeString and SHVTypeBlob objects that can be constructed:
\* without any attribute only under the builtin name
StringPool ==
    ({SHVTypeString("s", mn, mx, p) :
        mn \in StringLengths, mx \in StringLengths, p \in {None, Some("p")}}
      \ {SHVTypeString("s", None, None, None)})
      \cup {SHVTypeString("String", None, None, None)}

BlobPool ==
    ({SHVTypeBlob("s", mn, mx) : mn \in StringLengths, mx \in StringLengths}
      \ {SHVTypeBlob("s", None, None)})
      \cup {SHVTypeBlob("Blob", None, None)}

DecimalBounds ==
    OptionalOf({Decimal(0, <<1, 5>>, JInt(-1)), Decimal(0, <<3>>, JInt(0)),
                Decimal(1, <<2>>, JInt(2)), Decimal(0, <<0>>, JStr("F"))})

DecimalPool ==
    ({SHVTypeDecimal("d", mn, mx) : mn \in DecimalBounds, mx \in DecimalBounds}
      \ {SHVTypeDecimal("d", None, None)})
      \cup {SHVTypeDecimal("Decimal", None, None)}

BitfieldPool ==
    {SHVTypeBitfield("b", items, None, strict) :
        items \in SeqsUpTo({shvNull, shvBool, shvUInt8, shvUInt}, MaxItems + 1),
        strict \in BOOLEAN}

\* the fields of the tuples: Null, Bool, Int, an Int over [0, 5] and String
FieldTypes ==
    {shvBuiltins[shvNull], shvBuiltins[shvBool], BuiltinInt("Int"),
     IntNew("x", Some(Big(0)), Some(Big(5)), None, None).obj,
     SHVTypeString("String", None, None, None)}

TuplePool == {SHVTypeTuple("t", items, None) : items \in SeqsUpTo(FieldTypes, MaxFields)}

ItemValues == {JNull, JBool(TRUE), JInt(1), JInt(7), JStr(<<"a">>)}

TupleValues ==
    {JNull, JInt(1), JStr(<<"a", "b">>)}
      \cup {JList(items) : items \in SeqsUpTo(ItemValues, MaxFields + 1)}

TypePool ==
    IntPool \cup {BuiltinInt(name) : name \in BuiltinIntNames} \cup StringPool
      \cup BlobPool \cup DecimalPool \cup BitfieldPool \cup TuplePool

IdleType == [op |-> "init", value |-> JNull, exc |-> NoExc, size |-> None, valid |-> FALSE]

\* the type and, for a Tuple, the value that is going to be validated
TypeInit ==
    /\ curtype \in TypePool
    /\ \E value \in (IF curtype.kind = "Tuple" THEN TupleValues ELSE {JNull}) :
          tplast = [IdleType EXCEPT !.value = value]

\* curtype.chainpack_bytes()
ChainpackBytes ==
    /\ tplast' = [IdleType EXCEPT !.op = "chainpack_bytes",
                                  !.value = tplast.value,
                                  !.exc = chainpack_bytes(curtype).exc,
                                  !.size = chainpack_bytes(curtype).ret]
    /\ UNCHANGED curtype

\* curtype.validate(value) of a Tuple
Validate ==
    /\ curtype.kind = "Tuple"
    /\ tplast' = [IdleType EXCEPT !.op = "validate", !.value = tplast.value,
                                  !.valid = validate(curtype, tplast.value)]
    /\ UNCHANGED curtype

(***************************************************************************)
(* Sizes of the integer types.                                             *)
(***************************************************************************)
\* the tiers as stated: 2 + ceil(bits / 8) while that payload is at most 17
StatedTier(bits) ==
    IF bits <= 7 THEN Some(2)
    ELSE IF bits <= 14 THEN Some(3)
    ELSE IF bits <= 21 THEN Some(4)
    ELSE IF bits <= 28 THEN Some(5)
    ELSE IF (bits + 7) \div 8 <= 17 THEN Some(2 + ((bits + 7) \div 8))
    ELSE None

\* the stated size of an Int type: bits is the full bit length of the largest
\* magnitude, plus one when the type is signed
StatedIntSize(t) ==
    IF t.minimum = None \/ t.maximum = None THEN None
    ELSE IF ~BigIsNeg(t.minimum[1]) /\ BigLess64(t.maximum[1]) THEN Some(1)
    ELSE StatedTier(Len(IF MagLess(t.minimum[1].mag, t.maximum[1].mag)
                        THEN t.maximum[1].mag ELSE t.minimum[1].mag)
                    + (IF t.unsigned THEN 0 ELSE 1))

SizeOf(kinds) == tplast.op = "chainpack_bytes" /\ curtype.kind \in kinds

\* C15: chainpack_bytes of an Int type is 1 for a range within [0, 64),
\* otherwise the tier of bits = bit_length(max(|minimum|, |maximum|)), plus
\* one when signed, and None when a bound is missing or beyond 17 bytes.
C15_IntSizeByBitLength ==
    SizeOf({"Int"}) => tplast.exc = NoExc /\ tplast.size = StatedIntSize(curtype)

SizeOfBuiltin(name, size) ==
    (tplast.op = "chainpack_bytes" /\ curtype = BuiltinInt(name)) => tplast.size = size

IntSizeOver(minimum, maximum) ==
    IntChainpackBytes(IntInit("", minimum, maximum, None, None).obj)

\* 1 + a + b, None when one of them is None
OnePlus(a, b) == IF a = None \/ b = None THEN None ELSE Some(1 + a[1] + b[1])

\* C17: chainpack_bytes of a String or Blob type is 1 + the size of the Int
\* over [min_length, max_length] + max_length when max_length is set, and
\* None, without raising, when max_length is unset.
C17_StringSize ==
    SizeOf({"String", "Blob"}) =>
        /\ tplast.exc = NoExc
        /\ curtype.max_length = None => tplast.size = None
        /\ curtype.max_length # None =>
              tplast.size = OnePlus(IntSizeOver(BigOpt(curtype.min_length),
                                                BigOpt(curtype.max_length)),
                                    curtype.max_length)

\* C18: chainpack_bytes of a Decimal type never raises and is 1 + the size
\* of the mantissa Int + the size of the exponent Int, None when either of
\* the two is unbounded.
C18_DecimalSize ==
    SizeOf({"Decimal"}) =>
        /\ tplast.exc = NoExc
        /\ tplast.size = OnePlus(IntSizeOver(None, None),
                                 IntSizeOver(ExponentOf(curtype.minimum),
                                             ExponentOf(curtype.maximum)))

\* C19: chainpack_bytes of a Bitfield type is the size of the unsigned Int
\* covering [0, 2^bitsize - 1], bitsize being the sum of the bit spans of
\* its components, holes included.
C19_BitfieldSize ==
    SizeOf({"Bitfield"}) =>
        tplast.size = IntSizeOver(Some(Big(0)), Some(BigPow2m1(bitsize(curtype))))

(***************************************************************************)
(* Validation against a Tuple type.                                        *)
(***************************************************************************)
\* C20: a value validates against a Tuple type iff it is a sequence with
\* no more items than the tuple has fields, item i validates against field
\* i, and every field left out at the end is a Null type.
C20_TupleValidate ==
    (tplast.op = "validate" /\ curtype.kind = "Tuple") =>
        (tplast.valid <=>
            /\ IsSequence(tplast.value)
            /\ Len(ItemsOf(tplast.value)) <= Len(curtype.items)
            /\ \A i \in 1..Len(ItemsOf(tplast.value)) :
                  validate(curtype.items[i], ItemsOf(tplast.value)[i])
            /\ \A i \in (Len(ItemsOf(tplast.value)) + 1)..Len(curtype.items) :
                  curtype.items[i].kind = "Null")

(***************************************************************************)
(* Comparison of two types (types.py, the __eq__ methods).  The heap holds *)
(* the builtins and custom types of every class, some of them twice under  *)
(* different names; curtype is the pair that is compared.                  *)
(***************************************************************************)
EqBase == Len(shvBuiltins)

EqHeap ==
    shvBuiltins \o
    << SHVTypeInt("i", Some(0), Some(5), None, None),
       SHVTypeInt("j", Some(0), Some(5), None, Some(FALSE)),
       SHVTypeInt("k", Some(0), Some(5), None, None),
       SHVTypeInt("l", Some(1), Some(5), Some(2), None),
       SHVTypeString("s", Some(0), Some(4), None),
       SHVTypeString("s2", Some(0), Some(4), None),
       SHVTypeString("s3", Some(0), Some(4), Some("p")),
       SHVTypeBlob("b", Some(0), Some(4)),
       SHVTypeBlob("b2", Some(0), Some(4)),
       SHVTypeBlob("b3", Some(0), Some(5)),
       SHVTypeAlias("a", EqBase + 1),
       SHVTypeAlias("a2", EqBase + 3),
       SHVTypeAlias("a3", shvBlob),
       SHVTypeOneOf("o", <<shvNull, EqBase + 1>>),
       SHVTypeOneOf("o2", <<shvNull, EqBase + 3>>),
       SHVTypeEnum("e", <<<<"x", 0>>, <<"y", 1>>>>),
       SHVTypeEnum("e2", <<<<"y", 1>>, <<"x", 0>>>>),
       SHVTypeBitfield("f", <<shvBool, shvUInt8>>, None, TRUE),
       SHVTypeBitfield("f2", <<shvBool, shvUInt8>>, None, TRUE),
       SHVTypeTuple("t", <<shvBool, shvUInt8>>, None),
       SHVTypeTuple("t2", <<shvBool, EqBase + 1>>, None),
       SHVTypeTuple("t3", <<shvBool, EqBase + 3>>, None),
       SHVTypeList("li", EqBase + 1, 0, Some(3)),
       SHVTypeList("li2", EqBase + 3, 0, Some(3)),
       SHVTypeMap("m", <<<<"x", shvInt>>>>),
       SHVTypeMap("m2", <<<<"x", shvInt>>>>),
       SHVTypeMap("m3", <<>>),
       SHVTypeEnum("e3", <<>>),
       SHVTypeIMap("im", <<<<0, shvInt>>>>, None),
       SHVTypeIMap("im2", <<<<0, shvInt>>>>, None),
       SHVTypeConstant("c", JInt(1)),
       SHVTypeConstant("c2", JInt(1)),
       SHVTypeConstant("c3", JStr("x")) >>

\* the builtins with bounds beyond the integers of the checker are left out
EqIds == {i \in 1..Len(EqHeap) : "kind" \in DOMAIN EqHeap[i] /\ (EqHeap[i].kind = "Int" => "minimum" \in DOMAIN EqHeap[i])}

IdleEq == [op |-> "init", eq |-> FALSE, swapped |-> FALSE]

EqInit ==
    /\ objects = EqHeap
    /\ curtype \in {[a |-> a, b |-> b] : a \in EqIds, b \in EqIds}
    /\ tplast = IdleEq

\* a == b, and b == a; repeated at will
Equal ==
    /\ tplast' = [op |-> "eq",
                  eq |-> PyEq(objects, curtype.a, curtype.b),
                  swapped |-> PyEq(objects, curtype.b, curtype.a)]
    /\ UNCHANGED <<curtype, objects>>

(***************************************************************************)
(* Structural equality as stated: the same variant with the same           *)
(* constraining fields, the names left aside, component types compared the *)
(* same way; an Alias also equals what it stands for.                      *)
(***************************************************************************)
RECURSIVE SameType(_, _, _)
SameFields(h, x, y) ==
    CASE x.kind \in {"Any", "Null", "Bool", "DateTime", "AnyMap", "AnyIMap"} -> TRUE
      [] x.kind = "Int" ->
            /\ x.minimum = y.minimum /\ x.maximum = y.maximum
            /\ x.multiple_of = y.multiple_of /\ x.unsigned = y.unsigned
      [] x.kind = "Double" ->
            /\ x.minimum = y.minimum /\ x.maximum = y.maximum
            /\ x.exclusive_minimum = y.exclusive_minimum
            /\ x.exclusive_maximum = y.exclusive_maximum
            /\ x.multiple_of = y.multiple_of
      [] x.kind = "Decimal" -> x.minimum = y.minimum /\ x.maximum = y.maximum
      [] x.kind = "String" ->
            /\ x.min_length = y.min_length /\ x.max_length = y.max_length
            /\ x.pattern = y.pattern
      [] x.kind = "Blob" ->
            x.min_length = y.min_length /\ x.max_length = y.max_length
      [] x.kind = "Alias" -> SameType(h, x.type, y.type)
      [] x.kind = "OneOf" ->
            /\ Len(x.types) = Len(y.types)
            /\ \A i \in 1..Len(x.types) : SameType(h, x.types[i], y.types[i])
      [] x.kind = "List" ->
            /\ SameType(h, x.allowed, y.allowed)
            /\ x.minlen = y.minlen /\ x.maxlen = y.maxlen
      [] x.kind \in {"Tuple", "Bitfield"} ->
            /\ Len(x.items) = Len(y.items)
            /\ \A i \in 1..Len(x.items) : SameType(h, x.items[i], y.items[i])
            /\ (x.enum = None) = (y.enum = None)
            /\ x.enum # None => SameType(h, x.enum[1], y.enum[1])
      [] x.kind = "Enum" ->
            {x.pairs[i] : i \in 1..Len(x.pairs)} = {y.pairs[i] : i \in 1..Len(y.pairs)}
      [] x.kind \in {"Map", "IMap"} ->
            /\ Len(x.pairs) = Len(y.pairs)
            /\ \A i \in 1..Len(x.pairs) : \E j \in 1..Len(y.pairs) :
                  /\ x.pairs[i][1] = y.pairs[j][1]
                  /\ SameType(h, x.pairs[i][2], y.pairs[j][2])
      [] x.kind = "Constant" -> x.value = y.value
      [] OTHER -> FALSE

SameType(h, a, b) ==
    \/ h[a].kind = h[b].kind /\ SameFields(h, h[a], h[b])
    \/ h[a].kind = "Alias" /\ SameType(h, h[a].type, b)
    \/ h[b].kind = "Alias" /\ SameType(h, a, h[b].type)

\* C21: two types compare equal iff they are the same variant with the
\* same constraining fields (the unsigned flag of an Int included, the names
\* not), except that an Alias also equals its underlying type; types of
\* different variants never compare equal.
C21_StructuralEquality ==
    tplast.op = "eq" => (tplast.eq <=> SameType(objects, curtype.a, curtype.b))

\* C30: type equality is reflexive and symmetric: a == a holds and a == b
\* holds iff b == a holds, for types of any variant.
C30_ReflexiveSymmetric ==
    tplast.op = "eq" =>
        /\ curtype.a = curtype.b => tplast.eq
        /\ tplast.eq <=> tplast.swapped

(***************************************************************************)
(* The attributes of an Int type (types.py): construction, then            *)
(* assignments to minimum, maximum and unsigned.  curtype is the object,   *)
(* or NoObject when the construction was refused.                          *)
(***************************************************************************)
AttrBounds == OptionalOf({Big(0 - 2), Big(0 - 1), Big(0), Big(3)})

Kept(exc, obj) == [exc |-> exc, obj |-> obj]

\* the assignment of the flag without the checks on the bounds
SetUnsignedUnchecked(t, value) == Kept(NoExc, [t EXCEPT !.unsigned = value])

\* SHVTypeInt.minimum = value
SetMinimum(t, value) ==
    IF t.unsigned /\ value # None /\ BigIsNeg(value[1])
    THEN Kept("ValueError", t)
    ELSE Kept(NoExc, [t EXCEPT !.maximum = value])

\* SHVTypeInt.maximum = value
SetMaximum(t, value) ==
    IF t.unsigned /\ value # None /\ BigIsNeg(value[1])
    THEN Kept("ValueError", t)
    ELSE Kept(NoExc, [t EXCEPT !.maximum = value])

\* SHVTypeInt.unsigned = value
SetUnsigned(t, value) ==
    IF value /\ t.minimum # None /\ BigIsNeg(t.minimum[1]) THEN Kept("ValueError", t)
    ELSE IF value /\ t.maximum # None /\ BigIsNeg(t.maximum[1]) THEN Kept("ValueError", t)
    ELSE Kept(NoExc, [t EXCEPT !.unsigned = value])

IdleAttr ==
    [op |-> "init", minimum |-> None, maximum |-> None, unsigned |-> None,
     value |-> None, flag |-> FALSE, exc |-> NoExc, before |-> NoObject]

\* SHVTypeInt("x", minimum, maximum, multiple_of, unsigned)
Constructed(minimum, maximum, multiple_of, unsigned) ==
    /\ curtype = IntNew("x", minimum, maximum, multiple_of, unsigned).obj
    /\ tplast = [IdleAttr EXCEPT
                    !.minimum = minimum, !.maximum = maximum, !.unsigned = unsigned,
                    !.exc = IntNew("x", minimum, maximum, multiple_of, unsigned).exc]

AttrInit ==
    \E minimum \in AttrBounds, maximum \in AttrBounds,
       multiple_of \in {None, Some(2)}, unsigned \in OptionalOf(BOOLEAN) :
        Constructed(minimum, maximum, multiple_of, unsigned)

Assigned(op, value, flag, r) ==
    /\ curtype' = r.obj
    /\ tplast' = [IdleAttr EXCEPT !.op = op, !.value = value, !.flag = flag,
                                  !.exc = r.exc, !.before = curtype]

AssignMinimum ==
    /\ curtype.kind = "Int"
    /\ \E value \in AttrBounds : Assigned("minimum", value, FALSE, SetMinimum(curtype, value))

AssignMaximum ==
    /\ curtype.kind = "Int"
    /\ \E value \in AttrBounds : Assigned("maximum", value, FALSE, SetMaximum(curtype, value))

AssignUnsigned ==
    /\ curtype.kind = "Int"
    /\ \E value \in BOOLEAN : Assigned("unsigned", None, value, SetUnsigned(curtype, value))

IsNegative(bound) == bound # None /\ BigIsNeg(bound[1])

\* the unsigned flag __init__ settles on
InitUnsigned ==
    IF tplast.unsigned # None THEN tplast.unsigned[1]
    ELSE tplast.minimum # None /\ ~BigIsNeg(tplast.minimum[1])

\* C24: an Int whose unsigned flag is true has neither a negative minimum
\* nor a negative maximum, after construction and after any sequence of
\* assignments to minimum, maximum and unsigned; a construction or an
\* assignment that would break this raises ValueError and changes nothing.
C24_UnsignedNonNegative ==
    /\ (curtype.kind = "Int" /\ curtype.unsigned)
          => ~IsNegative(curtype.minimum) /\ ~IsNegative(curtype.maximum)
    /\ (/\ tplast.op = "init" /\ InitUnsigned
        /\ IsNegative(tplast.minimum) \/ IsNegative(tplast.maximum))
          => tplast.exc = "ValueError" /\ curtype = NoObject
    /\ (/\ tplast.op \in {"minimum", "maximum"} /\ tplast.before.unsigned
        /\ IsNegative(tplast.value))
          => tplast.exc = "ValueError" /\ curtype = tplast.before
    /\ (/\ tplast.op = "unsigned" /\ tplast.flag
        /\ IsNegative(tplast.before.minimum) \/ IsNegative(tplast.before.maximum))
          => tplast.exc = "ValueError" /\ curtype = tplast.before

C24_Witness ==
    /\ tplast.op = "unsigned" /\ tplast.flag
    /\ IsNegative(tplast.before.maximum)
    /\ tplast.exc = "ValueError"
    /\ ~curtype.unsigned

\* C29: assigning a permitted value to minimum makes minimum equal to it
\* and leaves maximum, multiple_of and unsigned unchanged; assigning to
\* maximum changes only maximum.
C29_SetterFrame ==
    /\ (tplast.op = "minimum" /\ tplast.exc = NoExc)
          => curtype = [tplast.before EXCEPT !.minimum = tplast.value]
    /\ (tplast.op = "maximum" /\ tplast.exc = NoExc)
          => curtype = [tplast.before EXCEPT !.maximum = tplast.value]

(***************************************************************************)
(* Construction of the types whose class keeps one instance (types.py):    *)
(* the calls of the classes, each made MaxCalls times, and validate on a   *)
(* constructed Int or Double.                                              *)
(***************************************************************************)
\* the state in which a constructor runs on the heap h
Calling(h) ==
    [heap |-> h, types |-> <<>>, to_load |-> <<>>, data |-> <<>>,
     exc |-> NoError, ret |-> 0, attrs |-> <<>>]

\* SHVTypeAny(), SHVTypeNull(), SHVTypeBool(), SHVTypeDateTime(): the
\* instance the class keeps, made when the module was imported
NewOnly(st, cls) == Return(st, BuiltinByName(cls))

\* SHVTypeList(name, allowed, minlen, maxlen); the setter of allowed
\* refuses another type than shvAny for the name List
NewList(st, name, allowed, minlen, maxlen) ==
    IF Failed(st) THEN st
    ELSE IF name = "List" /\ allowed # shvAny THEN ValueError(st)
    ELSE IF name = "List"
    THEN InitAgain(st, BuiltinByName("List"),
                   SHVTypeList(name, allowed, minlen, maxlen))
    ELSE NewObject(st, SHVTypeList(name, allowed, minlen, maxlen))

Call(cls, name, args) == [cls |-> cls, name |-> name, args |-> args]

\* the classes called without a name
OnlyClasses == {"Any", "Null", "Bool", "DateTime"}

\* the calls: every class under its builtin name and under another name,
\* without and with parameters
Calls ==
    {Call(cls, "", <<>>) : cls \in OnlyClasses}
        \cup {Call("Int", n, <<mi, ma, mu, u>>) :
                  n \in {"Int", "UInt", "x"},
                  mi \in {None, Some(0), Some(0 - 1)},
                  ma \in {None, Some(5)},
                  mu \in {None, Some(0), Some(2)},
                  u \in {None, Some(TRUE), Some(FALSE)}}
        \cup {Call("Double", n, <<mi, None, None, None, mu>>) :
                  n \in {"Double", "x"},
                  mi \in {None, Some(0)},
                  mu \in {None, Some(0), Some(2)}}
        \cup {Call("Decimal", n, <<mi, ma>>) :
                  n \in {"Decimal", "x"},
                  mi \in {None, Some(0)},
                  ma \in {None, Some(5)}}
        \cup {Call("String", n, <<mi, ma, None>>) :
                  n \in {"String", "Blob", "x"},
                  mi \in {None, Some(0)},
                  ma \in {None, Some(4)}}
        \cup {Call("Blob", n, <<mi, ma>>) :
                  n \in {"String", "Blob", "x"},
                  mi \in {None, Some(0)},
                  ma \in {None, Some(4)}}
        \cup {Call("List", n, <<a, mi, None>>) :
                  n \in {"List", "x"},
                  a \in {shvAny, shvInt},
                  mi \in {0, 1}}

\* cls(name, *args) on the heap h
Construct(h, c) ==
    CASE c.cls \in OnlyClasses -> NewOnly(Calling(h), c.cls)
      [] c.cls = "Int" ->
            NewInt(Calling(h), c.name, c.args[1], c.args[2], c.args[3],
                   c.args[4])
      [] c.cls = "Double" ->
            NewDouble(Calling(h), c.name, c.args[1], c.args[2], c.args[3],
                      c.args[4], c.args[5])
      [] c.cls = "Decimal" ->
            NewDecimal(Calling(h), c.name, c.args[1], c.args[2])
      [] c.cls = "String" ->
            NewString(Calling(h), c.name, c.args[1], c.args[2], c.args[3])
      [] c.cls = "Blob" -> NewBlob(Calling(h), c.name, c.args[1], c.args[2])
      [] c.cls = "List" ->
            NewList(Calling(h), c.name, c.args[1], c.args[2], c.args[3])

\* SHVTypeInt.validate and SHVTypeDouble.validate on a value of the class's
\* Python type (an int for Int, a float for Double)
NumberValidate(t, value) ==
    IF ~(t.minimum = None \/ t.minimum[1] <= value) THEN Returned(FALSE)
    ELSE IF ~(t.maximum = None \/ t.maximum[1] >= value) THEN Returned(FALSE)
    ELSE IF /\ t.kind = "Double"
            /\ ~(t.exclusive_minimum = None \/ t.exclusive_minimum[1] < value)
    THEN Returned(FALSE)
    ELSE IF /\ t.kind = "Double"
            /\ ~(t.exclusive_maximum = None \/ t.exclusive_maximum[1] > value)
    THEN Returned(FALSE)
    ELSE IF t.multiple_of = None THEN Returned(TRUE)
    ELSE IF t.multiple_of[1] = 0 THEN Raised("ZeroDivisionError")
    ELSE Returned(value % t.multiple_of[1] = 0)

\* the values validated
NumberValues == {0 - 2, 0, 1, 4}

IdleNew ==
    [op |-> "init", calls |-> 0, exc |-> NoExc, msg |-> "", ret |-> 0,
     before |-> <<>>, value |-> 0, valid |-> None]

NewInit == curtype \in Calls /\ objects = shvBuiltins /\ tplast = IdleNew

NewDone(st) ==
    /\ objects' = st.heap
    /\ tplast' = [op |-> "new", calls |-> tplast.calls + 1,
                  exc |-> st.exc.kind,
                  msg |-> IF "msg" \in DOMAIN st.exc THEN st.exc.msg ELSE "",
                  ret |-> IF Failed(st) THEN 0 ELSE st.ret,
                  before |-> objects, value |-> 0, valid |-> None]
    /\ UNCHANGED curtype

\* t = cls(name, *args)
New ==
    /\ tplast.op \in {"init", "new"}
    /\ tplast.calls < MaxCalls
    /\ NewDone(Construct(objects, curtype))

ValidateDone(value, r) ==
    /\ tplast' = [tplast EXCEPT !.op = "validate", !.value = value,
                                !.exc = r.exc, !.valid = r.ret]
    /\ UNCHANGED <<curtype, objects>>

\* t.validate(value) on the Int or Double just constructed
ValidateNew ==
    /\ tplast.op = "new"
    /\ tplast.exc = NoExc
    /\ curtype.cls \in {"Int", "Double"}
    /\ \E value \in NumberValues :
          ValidateDone(value, NumberValidate(objects[tplast.ret], value))

\* the call has none of the parameters that constrain the type
Unparameterized(c) ==
    \/ c.cls \in OnlyClasses
    \/ c.cls = "Int" /\ c.args \in {<<None, None, None, None>>,
                                    <<Some(0), None, None, None>>}
    \/ c.cls = "Double" /\ c.args = <<None, None, None, None, None>>
    \/ c.cls \in {"Decimal", "Blob"} /\ c.args = <<None, None>>
    \/ c.cls = "String" /\ c.args = <<None, None, None>>
    \/ c.cls = "List" /\ c.args = <<shvAny, 0, None>>

\* the name of the builtin an unparameterized call is the form of
BuiltinForm(c) ==
    IF c.cls = "Int" /\ c.args[1] = Some(0) THEN "UInt" ELSE c.cls

\* C22: constructing the unparameterized form of Any, Null, Bool, DateTime,
\* Int, UInt (minimum 0), Double, Decimal, String, Blob or List under its
\* builtin name returns the one builtin instance, and makes no object;
\* constructing an unconstrained Int, UInt, Double, Decimal, String or Blob
\* under any other name fails with "Please use shv<Type> instead".
C22_Singletons ==
    (tplast.op = "new" /\ Unparameterized(curtype))
        => IF curtype.cls \in OnlyClasses \/ curtype.name = BuiltinForm(curtype)
           THEN /\ tplast.exc = NoExc
                /\ tplast.ret = BuiltinByName(BuiltinForm(curtype))
                /\ objects = shvBuiltins
           ELSE \/ curtype.cls = "List"
                \/ /\ tplast.exc = "ValueError"
                   /\ tplast.msg
                        = "Please use shv" \o BuiltinForm(curtype) \o " instead"
                   /\ tplast.ret = 0
                   /\ objects = shvBuiltins

\* SHVTypeInt("UInt", 0) has been called MaxCalls times and returned shvUInt
C22_Witness ==
    /\ tplast.op = "new"
    /\ tplast.calls = MaxCalls
    /\ curtype = Call("Int", "UInt", <<Some(0), None, None, None>>)
    /\ tplast.ret = shvUInt
    /\ Len(objects) = Len(shvBuiltins)

\* the call gives a multipleOf of zero to Int or Double
ZeroMultiple(c) ==
    \/ c.cls = "Int" /\ c.args[3] = Some(0)
    \/ c.cls = "Double" /\ c.args[5] = Some(0)

\* C23: constructing an Int or Double type with multipleOf equal to zero is
\* rejected at construction, so validate never fails with a division error.
C23_ZeroMultipleRejected ==
    /\ (tplast.op = "new" /\ ZeroMultiple(curtype)) => tplast.exc # NoExc
    /\ tplast.op = "validate" => tplast.exc # "ZeroDivisionError"

(***************************************************************************)
(* The specifications: one per component, the other variables idle.        *)
(***************************************************************************)
nsvars == <<namedset, nslast>>
bfvars == <<bitfield, bflast>>
ldvars == <<document, objects, loaded>>
ndvars == <<curnode, ndlast>>
tpvars == <<curtype, tplast>>

NamedSetIdle == namedset = <<>> /\ nslast = IdleNs
BitfieldIdle == bitfield = [items |-> <<>>, strict |-> TRUE] /\ bflast = IdleBitfield
NodeIdle == curnode = <<>> /\ ndlast = IdleNode
TypeIdle == curtype = <<>> /\ tplast = <<>>

InitNamedSet ==
    NamedSetInit /\ BitfieldIdle /\ LoaderIdle /\ NodeIdle /\ TypeIdle

NextNamedSet ==
    \/ NamedSetAdd /\ UNCHANGED <<bfvars, ldvars, ndvars, tpvars>>
    \/ NamedSetDelItem /\ UNCHANGED <<bfvars, ldvars, ndvars, tpvars>>
    \/ NamedSetDiscard /\ UNCHANGED <<bfvars, ldvars, ndvars, tpvars>>
    \/ NamedSetUpdate /\ UNCHANGED <<bfvars, ldvars, ndvars, tpvars>>

SpecNamedSet == InitNamedSet /\ [][NextNamedSet]_vars

InitBitfield ==
    BitfieldInit /\ NamedSetIdle /\ LoaderIdle /\ NodeIdle /\ TypeIdle

NextBitfield ==
    \/ BitfieldSet /\ UNCHANGED <<nsvars, ldvars, ndvars, tpvars>>
    \/ BitfieldGet /\ UNCHANGED <<nsvars, ldvars, ndvars, tpvars>>
    \/ BitfieldInterpret /\ UNCHANGED <<nsvars, ldvars, ndvars, tpvars>>
    \/ BitfieldValidate /\ UNCHANGED <<nsvars, ldvars, ndvars, tpvars>>

SpecBitfield == InitBitfield /\ [][NextBitfield]_vars

InitLoader ==
    LoaderInit /\ NamedSetIdle /\ BitfieldIdle /\ NodeIdle /\ TypeIdle

NextLoader ==
    LoadRaw /\ UNCHANGED <<nsvars, bfvars, ndvars, tpvars>>

SpecLoader == InitLoader /\ [][NextLoader]_vars

InitProperty ==
    PropertyInit /\ NamedSetIdle /\ BitfieldIdle /\ LoaderIdle /\ TypeIdle

NextProperty ==
    \/ MakeProperty /\ UNCHANGED <<nsvars, bfvars, ldvars, tpvars>>
    \/ MethodsAddNew /\ UNCHANGED <<nsvars, bfvars, ldvars, tpvars>>
    \/ MethodsDelItem /\ UNCHANGED <<nsvars, bfvars, ldvars, tpvars>>

SpecProperty == InitProperty /\ [][NextProperty]_vars

InitTree ==
    /\ TreeInit /\ document = JNull /\ loaded = <<>>
    /\ NamedSetIdle /\ BitfieldIdle /\ TypeIdle

NextTree ==
    \/ GetNode /\ UNCHANGED <<nsvars, bfvars, document, loaded, tpvars>>
    \/ Iterate /\ UNCHANGED <<nsvars, bfvars, document, loaded, tpvars>>
    \/ GetType /\ UNCHANGED <<nsvars, bfvars, document, loaded, tpvars>>

SpecTree == InitTree /\ [][NextTree]_vars

InitTypes ==
    /\ TypeInit
    /\ NamedSetIdle /\ BitfieldIdle /\ LoaderIdle /\ NodeIdle

NextTypes ==
    \/ ChainpackBytes /\ UNCHANGED <<nsvars, bfvars, ldvars, ndvars>>
    \/ Validate /\ UNCHANGED <<nsvars, bfvars, ldvars, ndvars>>

SpecTypes == InitTypes /\ [][NextTypes]_vars

InitEq ==
    /\ EqInit /\ document = JNull /\ loaded = <<>>
    /\ NamedSetIdle /\ BitfieldIdle /\ NodeIdle

NextEq ==
    \/ Equal /\ UNCHANGED <<nsvars, bfvars, document, loaded, ndvars>>

SpecEq == InitEq /\ [][NextEq]_vars

InitRefs ==
    /\ RefInit /\ NamedSetIdle /\ BitfieldIdle /\ NodeIdle /\ TypeIdle

NextRefs ==
    \/ LoadTypes /\ UNCHANGED <<nsvars, bfvars, ndvars, tpvars>>

SpecRefs == InitRefs /\ [][NextRefs]_vars

InitNew ==
    /\ NewInit /\ document = JNull /\ loaded = <<>>
    /\ NamedSetIdle /\ BitfieldIdle /\ NodeIdle

NextNew ==
    \/ New /\ UNCHANGED <<nsvars, bfvars, document, loaded, ndvars>>
    \/ ValidateNew /\ UNCHANGED <<nsvars, bfvars, document, loaded, ndvars>>

SpecNew == InitNew /\ [][NextNew]_vars

InitAttrs == AttrInit /\ NamedSetIdle /\ BitfieldIdle /\ LoaderIdle /\ NodeIdle

NextAttrs ==
    \/ AssignMinimum /\ UNCHANGED <<nsvars, bfvars, ldvars, ndvars>>
    \/ AssignMaximum /\ UNCHANGED <<nsvars, bfvars, ldvars, ndvars>>
    \/ AssignUnsigned /\ UNCHANGED <<nsvars, bfvars, ldvars, ndvars>>

SpecAttrs == InitAttrs /\ [][NextAttrs]_vars

====
